---- MODULE Spec2Model ----
(***************************************************************************)
(* Verification model of the knowledge-base chatbot backend:               *)
(*   - the vector index lifecycle (batch/update_faiss.py,                  *)
(*     app/core/services/vector_db_service.py, rag_service.py),            *)
(*   - the query-time pipeline (app/core/workflow/graph.py and the agents),*)
(*   - the synchronisation engine (batch/main.py, batch/sync_*.py,         *)
(*     app/core/services/incremental_sync.py, data_collector.py,           *)
(*     batch/detect_deleted.py, deletion_detector.py).                     *)
(* Three specifications share the module: SpecFaiss, SpecChat, SpecSync.   *)
(***************************************************************************)
EXTENDS Integers, Naturals, Sequences, FiniteSets, TLC

VARIABLES
    documents,      \* table "documents": set of rows
    chunks,         \* table "document_chunks": set of rows
    faissFile,      \* the persisted vector file  (faiss.index)
    metaFile,       \* the persisted metadata file (faiss.pkl)
    faissStats,     \* stats returned by the last update_faiss_index run
    faissAdded,     \* <<chunk id, ordinal>> pairs that run added to the index
    lastOp,         \* name of the last operation that ran
    pc,             \* query pipeline: the graph node to run next
    chatState,      \* query pipeline: the ChatState of the request
    stagesRun,      \* query pipeline: the nodes that have run, in order
    llmUsed,        \* query pipeline: the nodes that reached LLMService()
    result,         \* query pipeline: what run_workflow returned
    lastInput,      \* query pipeline: the environment's input to the last step
    upstream,       \* the items held by Jira and Confluence, by doc_id
    syncHistory,    \* table "sync_history": set of rows
    now,            \* the clock, in the minutes the JQL/CQL date filter keeps
    syncRun,        \* report of the last synchronisation run
    deletionRun,    \* report of the last deletion-detection pass
    retry,          \* one call of a function wrapped by batch/retry_handler.py
    searchCall,     \* the last call of RAGService.search_documents and what it returned
    vdb,            \* a VectorDBService in use, and a fresh one that loads what it saved
    embedCall       \* the last call of an EmbeddingService method and what it returned

faissVars == <<chunks, faissFile, metaFile, faissStats, faissAdded>>

chatVars == <<pc, chatState, stagesRun, llmUsed, result, lastInput>>

syncVars == <<upstream, syncHistory, now, syncRun, deletionRun>>

\* the stand-alone utilities
utilVars == <<retry, searchCall, embedCall, vdb>>

(***************************************************************************)
(* Bounds                                                                  *)
(***************************************************************************)
MaxChunksPerDoc == 2
MaxChunkRows == 4

(***************************************************************************)
(* Generic helpers                                                         *)
(***************************************************************************)
None == -1

Min(a, b) == IF a <= b THEN a ELSE b

SetMin(S) == CHOOSE x \in S : \A y \in S : x <= y

SetMax(S) == CHOOSE x \in S : \A y \in S : y <= x

RECURSIVE SortedSeq(_)
SortedSeq(S) ==
    IF S = {} THEN <<>>
    ELSE LET m == SetMin(S) IN <<m>> \o SortedSeq(S \ {m})

Range(s) == {s[i] : i \in 1..Len(s)}

(***************************************************************************)
(* Document store                                                          *)
(***************************************************************************)
JiraDocIds == {"jira-A", "jira-B"}
ConfluenceDocIds == {"confluence-P"}
DocIds == JiraDocIds \cup ConfluenceDocIds

DocumentRow(pk, doc_id, doc_type, content, deleted) ==
    [id |-> pk, doc_id |-> doc_id, doc_type |-> doc_type,
     content |-> content, deleted |-> deleted]

\* chunk_text is written by the content it was cut from
DocumentChunkRow(pk, document_id, chunk_index, chunk_text, faiss_index_id) ==
    [id |-> pk, document_id |-> document_id, chunk_index |-> chunk_index,
     chunk_text |-> chunk_text, faiss_index_id |-> faiss_index_id]

\* chunk.document : the parent row of a chunk
ChunkDocument(c) == CHOOSE d \in documents : d.id = c.document_id

NextPk(rows) == IF rows = {} THEN 1 ELSE SetMax({r.id : r \in rows}) + 1

ChunkById(rows, pk) == CHOOSE c \in rows : c.id = pk

(***************************************************************************)
(* VectorDBService: an index is the sequence of its vectors (each vector   *)
(* is named by the chunk whose text was embedded) plus the metadata list.  *)
(* Ordinals are 0-based as in FAISS: ordinal n is position n+1.            *)
(***************************************************************************)
DEFAULT_DIMENSION == 3072

\* the metadata file (.pkl) when absent
NoFile == [exists |-> FALSE, data |-> <<>>]

\* the vector file when absent; a vector file records the dimension d of its index
NoIndexFile == [exists |-> FALSE, d |-> 0, data |-> <<>>]

VectorDBService ==
    [initialized |-> FALSE, dimension |-> DEFAULT_DIMENSION, vectors |-> <<>>,
     metadata |-> <<>>]

create_index(svc) ==
    [initialized |-> TRUE, dimension |-> svc.dimension, vectors |-> <<>>,
     metadata |-> <<>>]

\* variant: load_index that reads the vector file only
load_index_without_metadata(svc, ff, mf) ==
    [initialized |-> TRUE,
     dimension |-> ff.d,
     vectors |-> ff.data,
     metadata |-> <<>>]

\* VectorDBService.load_index on a vector file that exists
load_index(svc, ff, mf) ==
    [initialized |-> TRUE,
     dimension |-> ff.d,
     vectors |-> ff.data,
     metadata |-> IF mf.exists THEN mf.data ELSE <<>>]

\* load_index, lines 283-286: faiss.read_index and what is taken from it
read_index(svc, ff) ==
    [svc EXCEPT !.initialized = TRUE, !.dimension = ff.d, !.vectors = ff.data]

\* load_index, lines 288-297: the metadata file is read, or [] when it is absent
read_metadata(svc, mf) ==
    [svc EXCEPT !.metadata = IF mf.exists THEN mf.data ELSE <<>>]

ntotal(svc) == Len(svc.vectors)

\* index.add(vector): the raw FAISS append, which leaves the metadata alone
index_add(svc, v) == [svc EXCEPT !.vectors = Append(@, v)]

\* a metadata record as build_vector_db.py / add_document_to_index write it;
\* a missing key reads as None (chunk_id) or "" (doc_id), both falsy in Python
MetaRecord(chunk_id, doc_id) == [chunk_id |-> chunk_id, doc_id |-> doc_id]

EmptyMeta == MetaRecord(None, "")

\* VectorDBService.add_vectors: every vector gets the next ordinal; with no
\* metadata an empty record is stored per vector; a metadata list of the wrong
\* length raises after the vectors have been appended (lines 86-97)
RECURSIVE AppendAll(_, _)
AppendAll(s1, s2) == IF s2 = <<>> THEN s1 ELSE AppendAll(Append(s1, s2[1]), Tail(s2))

add_vectors(svc, vectors, metadata) ==
    LET svc0 == IF svc.initialized THEN svc ELSE create_index(svc)
        start_id == ntotal(svc0)
        added == [svc0 EXCEPT !.vectors = AppendAll(@, vectors)]
        index_ids == [i \in 1..Len(vectors) |-> start_id + i - 1]
    IN  IF metadata # <<>> /\ Len(metadata) # Len(vectors)
        THEN [svc |-> added, raised |-> TRUE, index_ids |-> <<>>]
        ELSE [svc |-> [added EXCEPT !.metadata =
                          AppendAll(@, [i \in 1..Len(vectors) |->
                              [faiss_index_id |-> index_ids[i]]
                                 @@ (IF metadata # <<>> THEN metadata[i] ELSE EmptyMeta)])],
              raised |-> FALSE, index_ids |-> index_ids]

\* VectorDBService.remove_vectors: the index is rebuilt from the vectors whose
\* ordinal is not in index_ids and from the metadata records stored at those
\* ordinals
remove_vectors(svc, index_ids) ==
    LET keep == SelectSeq([i \in 1..ntotal(svc) |-> i - 1], LAMBDA o : o \notin index_ids)
        keep_vectors == [j \in 1..Len(keep) |-> svc.vectors[keep[j] + 1]]
        keep_kept == SelectSeq(keep, LAMBDA o : o < Len(svc.metadata))
        keep_metadata == [j \in 1..Len(keep_kept) |-> svc.metadata[keep_kept[j] + 1]]
        removed_count == ntotal(svc) - Len(keep)
    IN  IF ~svc.initialized \/ ntotal(svc) = 0
        THEN [svc |-> svc, raised |-> FALSE, removed_count |-> 0]
        ELSE IF keep_vectors = <<>>
        THEN [svc |-> create_index(svc), raised |-> FALSE, removed_count |-> removed_count]
        ELSE LET a == add_vectors(create_index(svc), keep_vectors, keep_metadata) IN
             [svc |-> a.svc, raised |-> a.raised, removed_count |-> removed_count]

save_index(svc) ==
    [faiss |-> [exists |-> TRUE, d |-> svc.dimension, data |-> svc.vectors],
     meta  |-> [exists |-> TRUE, data |-> svc.metadata]]

\* VectorDBService.search, lines 155-160: the metadata paired with a hit
search_metadata(svc, idx) ==
    IF idx < Len(svc.metadata) THEN svc.metadata[idx + 1] ELSE EmptyMeta

(***************************************************************************)
(* app/core/services/rag_service.py                                        *)
(***************************************************************************)
NoDetails == [doc_id |-> "", doc_type |-> "", chunk_id |-> None]

\* variant: _get_document_details without the date_to filter
get_document_details_without_date_to(docs, rows, chunk_id, doc_id, doc_type, include_deleted, date_from, date_to) ==
    LET viaChunk == chunk_id # None /\ chunk_id # 0
        chunkRows == {c \in rows : c.id = chunk_id}
        docRows == IF viaChunk
                   THEN {d \in docs : \E c \in chunkRows : d.id = c.document_id}
                   ELSE {d \in docs : d.doc_id = doc_id}
    IN  IF ~viaChunk /\ doc_id = "" THEN NoDetails
        ELSE IF docRows = {} THEN NoDetails
        ELSE LET document == CHOOSE d \in docRows : TRUE IN
             IF ~include_deleted /\ document.deleted THEN NoDetails
             ELSE IF doc_type # "" /\ document.doc_type # doc_type THEN NoDetails
             ELSE IF date_from # None /\ document.updated_at < date_from THEN NoDetails
             ELSE [doc_id |-> document.doc_id, doc_type |-> document.doc_type,
                   chunk_id |-> IF viaChunk THEN chunk_id ELSE None]

\* RAGService._get_document_details: the soft-delete, doc-type and date
\* filters.  date_from and date_to are None or a date; the column updated_at
\* is read only when a date bound is given, and only the rows of the store that
\* search_documents is called on with date bounds carry it.
get_document_details(docs, rows, chunk_id, doc_id, doc_type, include_deleted, date_from, date_to) ==
    LET viaChunk == chunk_id # None /\ chunk_id # 0
        chunkRows == {c \in rows : c.id = chunk_id}
        docRows == IF viaChunk
                   THEN {d \in docs : \E c \in chunkRows : d.id = c.document_id}
                   ELSE {d \in docs : d.doc_id = doc_id}
    IN  IF ~viaChunk /\ doc_id = "" THEN NoDetails
        ELSE IF docRows = {} THEN NoDetails
        ELSE LET document == CHOOSE d \in docRows : TRUE IN
             IF ~include_deleted /\ document.deleted THEN NoDetails
             ELSE IF doc_type # "" /\ document.doc_type # doc_type THEN NoDetails
             ELSE IF date_from # None /\ document.updated_at < date_from THEN NoDetails
             ELSE IF date_to # None /\ document.updated_at > date_to THEN NoDetails
             ELSE [doc_id |-> document.doc_id, doc_type |-> document.doc_type,
                   chunk_id |-> IF viaChunk THEN chunk_id ELSE None]

\* RAGService.__init__, lines 33-47: the vector service is built with the
\* embedding dimension, then the index is loaded when the file exists, which
\* replaces the dimension by the one of the file; nothing compares the two
RAGServiceIndex(ff, mf) ==
    IF ff.exists THEN load_index(VectorDBService, ff, mf) ELSE VectorDBService

\* search_documents, lines 98-123, for one hit at ordinal idx: the joined
\* document, or NoDetails when the hit is dropped
ResolveHit(docs, rows, svc, idx, doc_type, include_deleted) ==
    LET metadata == search_metadata(svc, idx) IN
    IF (metadata.chunk_id = None \/ metadata.chunk_id = 0) /\ metadata.doc_id = ""
    THEN NoDetails
    ELSE get_document_details(docs, rows, metadata.chunk_id, metadata.doc_id,
                              doc_type, include_deleted, None, None)

(***************************************************************************)
(* batch/update_faiss.py                                                   *)
(***************************************************************************)
batch_size == 100

\* chunks of soft-deleted documents that still hold an ordinal
DeletedChunksWithId(docs, rows) ==
    {c \in rows : c.faiss_index_id # None /\
                  \E d \in docs : d.id = c.document_id /\ d.deleted}

get_deleted_chunk_ids(docs, rows) ==
    {c.faiss_index_id : c \in DeletedChunksWithId(docs, rows)}

get_chunks_without_embeddings(docs, rows) ==
    SortedSeq({c.id : c \in {r \in rows : r.faiss_index_id = None /\
                  \E d \in docs : d.id = r.document_id /\ ~d.deleted}})

\* lines 135-141: null the ordinal of every chunk whose ordinal is in deleted_ids
ClearDeletedOrdinals(rows, deleted_ids) ==
    {IF c.faiss_index_id \in deleted_ids
        THEN [c EXCEPT !.faiss_index_id = None] ELSE c : c \in rows}

\* lines 168-179: one chunk of a batch: faiss_id = ntotal, index.add, set the id
AddChunkVector(st, pk) ==
    LET faiss_id == ntotal(st.svc) IN
    [svc    |-> index_add(st.svc, pk),
     rows   |-> {IF c.id = pk THEN [c EXCEPT !.faiss_index_id = faiss_id] ELSE c
                    : c \in st.rows},
     added  |-> st.added \cup {<<pk, faiss_id>>},
     errors |-> st.errors]

RECURSIVE AddBatchChunks(_, _, _, _)
AddBatchChunks(st, all_chunks, from, to) ==
    IF from > to THEN st
    ELSE AddBatchChunks(AddChunkVector(st, all_chunks[from]), all_chunks, from + 1, to)

\* lines 159-186: the batch loop; a batch whose embedding call raises is
\* counted in errors and skipped
RECURSIVE ProcessBatches(_, _, _, _)
ProcessBatches(st, all_chunks, k, failing) ==
    LET from == (k - 1) * batch_size + 1
        to   == Min(k * batch_size, Len(all_chunks))
    IN  IF from > Len(all_chunks) THEN st
        ELSE IF k \in failing
             THEN ProcessBatches([st EXCEPT !.errors = @ + (to - from + 1)],
                                 all_chunks, k + 1, failing)
             ELSE ProcessBatches(AddBatchChunks(st, all_chunks, from, to),
                                 all_chunks, k + 1, failing)

NumBatches(n) == (n + batch_size - 1) \div batch_size

\* the whole of update_faiss_index, as a function of the store, the files and
\* the set of batches whose embedding call fails
update_faiss_index(docs, rows, ff, mf, failing) ==
    LET svc0 == IF ff.exists THEN load_index(VectorDBService, ff, mf)
                ELSE create_index(VectorDBService)
        deleted_ids == get_deleted_chunk_ids(docs, rows)
        removed == Cardinality(DeletedChunksWithId(docs, rows))
        rows1 == IF deleted_ids # {} THEN ClearDeletedOrdinals(rows, deleted_ids)
                 ELSE rows
        svc1 == IF deleted_ids # {} THEN create_index(svc0) ELSE svc0
        all_chunks == get_chunks_without_embeddings(docs, rows1)
        st == ProcessBatches([svc |-> svc1, rows |-> rows1, added |-> {}, errors |-> 0],
                             all_chunks, 1, failing)
    IN  [rows  |-> st.rows,
         files |-> save_index(st.svc),
         stats |-> [vectors_added   |-> Cardinality(st.added),
                    vectors_removed |-> removed,
                    total_vectors   |-> ntotal(st.svc),
                    errors          |-> st.errors],
         added |-> st.added]

\* rebuild_faiss_index: every chunk's faiss_index_id is set to NULL and
\* committed, then update_faiss_index runs on the same path
rebuild_faiss_index(docs, rows, ff, mf, failing) ==
    update_faiss_index(docs, {[c EXCEPT !.faiss_index_id = None] : c \in rows},
                       ff, mf, failing)

(***************************************************************************)
(* batch/process_chunks.py                                                 *)
(***************************************************************************)
\* A document's content is modelled by the number of chunks the splitter
\* cuts it into; 0 is blank content (split_document returns []).
Contents == 0..MaxChunksPerDoc

chunk_documents(content) == content

\* create_chunks_for_document: chunk_index 0..n-1, no ordinal yet
create_chunks_for_document(rows, doc) ==
    LET n == chunk_documents(doc.content)
        base == NextPk(rows)
    IN  rows \cup {DocumentChunkRow(base + i, doc.id, i, doc.content, None) : i \in 0..(n - 1)}

RECURSIVE ProcessDocuments(_, _, _)
ProcessDocuments(rows, docSeq, force_reprocess) ==
    IF docSeq = <<>> THEN rows
    ELSE LET doc == docSeq[1]
             existing == {c \in rows : c.document_id = doc.id}
             rows1 == IF existing # {} /\ ~force_reprocess THEN rows
                      ELSE create_chunks_for_document(rows \ existing, doc)
         IN  ProcessDocuments(rows1, Tail(docSeq), force_reprocess)

\* process_document_chunks(db, document_ids, force_reprocess)
process_document_chunks(docs, rows, document_ids, force_reprocess) ==
    LET selected == {d \in docs : ~d.deleted /\
                        (document_ids = {} \/ d.id \in document_ids)}
        order == SortedSeq({d.id : d \in selected})
        docSeq == [i \in 1..Len(order) |-> CHOOSE d \in docs : d.id = order[i]]
    IN  ProcessDocuments(rows, docSeq, force_reprocess)

(***************************************************************************)
(* app/core/services/deletion_detector.py                                  *)
(***************************************************************************)
get_stored_doc_ids(docs, doc_type) ==
    {d.doc_id : d \in {r \in docs : r.doc_type = doc_type /\ ~r.deleted}}

\* DeletionDetector.detect_deleted_documents: returns the new table and the
\* number of rows the bulk update touched
detect_deleted_documents(docs, doc_type, current_doc_ids) ==
    LET deleted_doc_ids == get_stored_doc_ids(docs, doc_type) \ current_doc_ids
    IN  IF deleted_doc_ids = {} THEN [docs |-> docs, count |-> 0]
        ELSE [docs  |-> {IF d.doc_id \in deleted_doc_ids
                            THEN [d EXCEPT !.deleted = TRUE] ELSE d : d \in docs},
              count |-> Cardinality({d \in docs : d.doc_id \in deleted_doc_ids})]

DocTypes == {"jira", "confluence"}

IdsOfType(doc_type) == IF doc_type = "jira" THEN JiraDocIds ELSE ConfluenceDocIds

(***************************************************************************)
(* Upstream sources (app/core/services/jira_client.py,                     *)
(* confluence_client.py) and the sync_history table (app/models/sync.py).  *)
(* Times are whole minutes: the date filter sent upstream is formatted     *)
(* "%Y-%m-%d %H:%M".                                                       *)
(***************************************************************************)
MaxClock == 1
MaxSyncRecords == 2

UpstreamContents == {1, 2}

NoItem == [exists |-> FALSE, content |-> 0, updated |-> 0]

UpstreamItem(content, updated) ==
    [exists |-> TRUE, content |-> content, updated |-> updated]

\* JiraClient.get_issues_updated_since: no filter when last_sync is None
get_issues_updated_since(up, last_sync) ==
    {d \in JiraDocIds : up[d].exists /\ (last_sync = None \/ up[d].updated >= last_sync)}

\* ConfluenceClient.get_pages_updated_since
get_pages_updated_since(up, last_sync) ==
    {d \in ConfluenceDocIds :
        up[d].exists /\ (last_sync = None \/ up[d].updated >= last_sync)}

DocTypeOf(doc_id) == IF doc_id \in JiraDocIds THEN "jira" ELSE "confluence"

\* format_issue_as_document / format_page_as_document
format_as_document(up, doc_id) ==
    [doc_id |-> doc_id, doc_type |-> DocTypeOf(doc_id), content |-> up[doc_id].content]

SyncHistoryRow(pk, sync_type, started_at) ==
    [id |-> pk, sync_type |-> sync_type, status |-> "running",
     documents_added |-> 0, documents_updated |-> 0, documents_deleted |-> 0,
     error_message |-> "None", started_at |-> started_at, completed_at |-> None]

SyncTypes == {"jira", "confluence", "all"}

ZeroStats == [added |-> 0, updated |-> 0, deleted |-> 0, errors |-> 0]

CONNECTION_ERROR == "connection error"

\* the number of items of a run that ended with the given result; an entry of
\* outcome is <<doc_id, result, unchanged>>
CountOf(outcome, key) == Cardinality({p \in outcome : p[2] = key})

\* TRUE when the store holds a live row of the item with the very content the
\* source now delivers
Unchanged(docs, doc_data) ==
    \E d \in docs : d.doc_id = doc_data.doc_id /\ d.content = doc_data.content
                      /\ ~d.deleted

(***************************************************************************)
(* app/core/services/data_collector.py                                     *)
(***************************************************************************)
\* DataCollector._upsert_document
upsert_document(docs, doc_data) ==
    LET matching == {d \in docs : d.doc_id = doc_data.doc_id} IN
    IF matching # {}
    THEN LET existing == CHOOSE d \in matching : \A e \in matching : d.id <= e.id IN
         IF existing.content = doc_data.content /\ ~existing.deleted
         THEN [docs |-> docs, result |-> "skipped"]
         ELSE [docs |-> (docs \ {existing}) \cup
                          {[existing EXCEPT !.content = doc_data.content,
                                            !.deleted = FALSE]},
               result |-> "updated"]
    ELSE [docs |-> docs \cup {DocumentRow(NextPk(docs), doc_data.doc_id,
                                          doc_data.doc_type, doc_data.content, FALSE)},
          result |-> "added"]

\* the loop of collect_*_documents: an item in bad raises while it is
\* formatted and is counted under errors
RECURSIVE CollectItems(_, _, _, _, _)
CollectItems(docs, up, items, bad, outcome) ==
    IF items = {} THEN [docs |-> docs, outcome |-> outcome]
    ELSE LET d == CHOOSE x \in items : TRUE
             r == upsert_document(docs, format_as_document(up, d))
         IN  IF d \in bad
             THEN CollectItems(docs, up, items \ {d}, bad,
                               outcome \cup {<<d, "errors", FALSE>>})
             ELSE CollectItems(r.docs, up, items \ {d}, bad,
                               outcome \cup {<<d, r.result,
                                               Unchanged(docs, format_as_document(up, d))>>})

CollectorStats(outcome) ==
    [added |-> CountOf(outcome, "added"), updated |-> CountOf(outcome, "updated"),
     skipped |-> CountOf(outcome, "skipped"), errors |-> CountOf(outcome, "errors")]

\* DataCollector.collect_jira_documents; fetch_raises: the fetch call raises,
\* the exception is re-raised after rollback
collect_jira_documents(docs, up, last_sync, fetch_raises, bad) ==
    LET r == CollectItems(docs, up, get_issues_updated_since(up, last_sync), bad, {}) IN
    IF fetch_raises
    THEN [raised |-> TRUE, docs |-> docs, stats |-> CollectorStats({}), outcome |-> {}]
    ELSE [raised |-> FALSE, docs |-> r.docs, stats |-> CollectorStats(r.outcome),
          outcome |-> r.outcome]

\* DataCollector.collect_confluence_documents
collect_confluence_documents(docs, up, last_sync, fetch_raises, bad) ==
    LET r == CollectItems(docs, up, get_pages_updated_since(up, last_sync), bad, {}) IN
    IF fetch_raises
    THEN [raised |-> TRUE, docs |-> docs, stats |-> CollectorStats({}), outcome |-> {}]
    ELSE [raised |-> FALSE, docs |-> r.docs, stats |-> CollectorStats(r.outcome),
          outcome |-> r.outcome]

(***************************************************************************)
(* app/core/services/incremental_sync.py                                   *)
(***************************************************************************)
\* IncrementalSync.get_last_sync_time
get_last_sync_time(history, sync_type) ==
    LET successes == {r \in history : r.sync_type = sync_type /\ r.status = "success"}
    IN  IF successes = {} THEN None
        ELSE SetMax({r.completed_at : r \in successes})

\* IncrementalSync.start_sync
start_sync(history, sync_type, t) ==
    history \cup {SyncHistoryRow(NextPk(history), sync_type, t)}

\* IncrementalSync.complete_sync
complete_sync(history, pk, stats, success, error_message, t) ==
    {IF r.id = pk
        THEN [r EXCEPT !.status = IF success THEN "success" ELSE "failed",
                       !.completed_at = t,
                       !.documents_added = stats.added,
                       !.documents_updated = stats.updated,
                       !.documents_deleted = stats.deleted,
                       !.error_message = error_message]
        ELSE r : r \in history}

\* combined_stats[key] += stats.get(key, 0) for the four keys of combined_stats
CombineStats(combined, stats) ==
    [added |-> combined.added + stats.added, updated |-> combined.updated + stats.updated,
     deleted |-> combined.deleted, errors |-> combined.errors + stats.errors]

\* what one source's fetch did within a run: the record of the run, the lower
\* time bound of the fetch, whether the fetch raised, what became of each item,
\* the errors count the source's sync returned
SyncPart(record_id, last_sync, c) ==
    [record_id |-> record_id, last_sync |-> last_sync,
     raised |-> c.raised, outcome |-> c.outcome, errors |-> c.stats.errors]

NotCollected(docs) ==
    [raised |-> FALSE, docs |-> docs, stats |-> CollectorStats({}), outcome |-> {}]

\* IncrementalSync.run_sync, lines 157-165: which sources a run fetches; the
\* Confluence fetch is not reached when the Jira fetch has raised
RunSyncSources(sync_type, jira_raised) ==
    {S \in DocTypes : \/ S = "jira" /\ sync_type \in {"jira", "all"}
                      \/ S = "confluence" /\ sync_type \in {"confluence", "all"}
                                          /\ ~jira_raised}

(***************************************************************************)
(* batch/sync_jira.py, batch/sync_confluence.py, batch/retry_handler.py    *)
(***************************************************************************)
\* get_last_jira_sync_time
get_last_jira_sync_time(history) ==
    LET successes == {r \in history : r.sync_type = "jira" /\ r.status = "success"}
    IN  IF successes = {} THEN None
        ELSE SetMax({r.completed_at : r \in successes})

\* get_last_confluence_sync_time
get_last_confluence_sync_time(history) ==
    LET successes == {r \in history : r.sync_type = "confluence" /\ r.status = "success"}
    IN  IF successes = {} THEN None
        ELSE SetMax({r.completed_at : r \in successes})

\* sync_*_incremental, the body of the loop: an existing row is rewritten
\* and counted as updated, a missing one is added
sync_document(docs, doc_data) ==
    LET matching == {d \in docs : d.doc_id = doc_data.doc_id} IN
    IF matching # {}
    THEN LET existing_doc == CHOOSE d \in matching : \A e \in matching : d.id <= e.id IN
         [docs |-> (docs \ {existing_doc}) \cup
                      {[existing_doc EXCEPT !.content = doc_data.content,
                                            !.deleted = FALSE]},
          result |-> "updated"]
    ELSE [docs |-> docs \cup {DocumentRow(NextPk(docs), doc_data.doc_id,
                                          doc_data.doc_type, doc_data.content, FALSE)},
          result |-> "added"]

\* the loop without "continue": it ends at the first item that raises
RECURSIVE SyncItems_stops_at_error(_, _, _, _, _)
SyncItems_stops_at_error(docs, up, items, bad, outcome) ==
    IF items = {} THEN [docs |-> docs, outcome |-> outcome]
    ELSE LET d == IF items \cap bad # {} THEN CHOOSE x \in items \cap bad : TRUE
                  ELSE CHOOSE x \in items : TRUE
             r == sync_document(docs, format_as_document(up, d))
         IN  IF d \in bad
             THEN [docs |-> docs, outcome |-> outcome \cup {<<d, "errors", FALSE>>}]
             ELSE SyncItems_stops_at_error(r.docs, up, items \ {d}, bad,
                            outcome \cup {<<d, r.result,
                                            Unchanged(docs, format_as_document(up, d))>>})

\* the loop of sync_*_incremental: an item in bad raises before the store is
\* touched (get_issue_details, get_page_content) and is counted under errors
RECURSIVE SyncItems(_, _, _, _, _)
SyncItems(docs, up, items, bad, outcome) ==
    IF items = {} THEN [docs |-> docs, outcome |-> outcome]
    ELSE LET d == CHOOSE x \in items : TRUE
             r == sync_document(docs, format_as_document(up, d))
         IN  IF d \in bad
             THEN SyncItems(docs, up, items \ {d}, bad,
                            outcome \cup {<<d, "errors", FALSE>>})
             ELSE SyncItems(r.docs, up, items \ {d}, bad,
                            outcome \cup {<<d, r.result,
                                            Unchanged(docs, format_as_document(up, d))>>})

BatchStats(outcome) ==
    [added |-> CountOf(outcome, "added"), updated |-> CountOf(outcome, "updated"),
     deleted |-> 0, errors |-> CountOf(outcome, "errors")]

sync_jira_incremental(docs, history, up, fetch_raises, bad) ==
    LET last_sync == get_last_jira_sync_time(history)
        r == SyncItems(docs, up, get_issues_updated_since(up, last_sync), bad, {})
    IN  IF fetch_raises
        THEN [raised |-> TRUE, docs |-> docs, stats |-> BatchStats({}), outcome |-> {},
              last_sync |-> last_sync]
        ELSE [raised |-> FALSE, docs |-> r.docs, stats |-> BatchStats(r.outcome),
              outcome |-> r.outcome, last_sync |-> last_sync]

sync_confluence_incremental(docs, history, up, fetch_raises, bad) ==
    LET last_sync == get_last_confluence_sync_time(history)
        r == SyncItems(docs, up, get_pages_updated_since(up, last_sync), bad, {})
    IN  IF fetch_raises
        THEN [raised |-> TRUE, docs |-> docs, stats |-> BatchStats({}), outcome |-> {},
              last_sync |-> last_sync]
        ELSE [raised |-> FALSE, docs |-> r.docs, stats |-> BatchStats(r.outcome),
              outcome |-> r.outcome, last_sync |-> last_sync]

DEFAULT_MAX_RETRIES == 3

\* retry_with_backoff: failures is the number of leading attempts that raise;
\* attempts 0..max_retries are made and RetryError is raised when all of them fail
retry_with_backoff(max_retries, failures) ==
    [attempts |-> Min(failures, max_retries) + 1, exhausted |-> failures > max_retries]

\* sync_jira_with_retry / sync_confluence_with_retry, or the bare call when
\* use_retry is False
sync_with_retry(docs, history, up, doc_type, use_retry, failures, bad) ==
    LET raises == IF use_retry THEN retry_with_backoff(DEFAULT_MAX_RETRIES, failures).exhausted
                  ELSE failures > 0
    IN  IF doc_type = "jira"
        THEN sync_jira_incremental(docs, history, up, raises, bad)
        ELSE sync_confluence_incremental(docs, history, up, raises, bad)

(***************************************************************************)
(* batch/detect_deleted.py                                                 *)
(***************************************************************************)
\* get_jira_document_ids / get_confluence_document_ids: the ids upstream holds,
\* and the empty set when the enumeration raises
get_source_document_ids(up, doc_type, enum_fails) ==
    IF doc_type \in enum_fails THEN {}
    ELSE {d \in IdsOfType(doc_type) : up[d].exists}

\* variant: the deleted == False filter left out
get_db_document_ids_any(docs, doc_type) ==
    {d.doc_id : d \in {r \in docs : r.doc_type = doc_type}}

get_db_document_ids(docs, doc_type) ==
    {d.doc_id : d \in {r \in docs : r.doc_type = doc_type /\ ~r.deleted}}

\* variant: the rows are removed instead of flagged
MarkDeleted_removes_rows(docs, doc_ids) == {d \in docs : d.doc_id \notin doc_ids}

MarkDeleted(docs, doc_ids) ==
    {IF d.doc_id \in doc_ids THEN [d EXCEPT !.deleted = TRUE] ELSE d : d \in docs}

\* detect_and_mark_deleted(db, source)
detect_and_mark_deleted(docs, source, up, enum_fails) ==
    LET do_jira == source \in {"jira", "all"}
        current_jira_ids == get_source_document_ids(up, "jira", enum_fails)
        deleted_jira_ids == IF do_jira
                            THEN get_db_document_ids(docs, "jira") \ current_jira_ids
                            ELSE {}
        docs1 == MarkDeleted(docs, deleted_jira_ids)
        do_confluence == source \in {"confluence", "all"}
        current_confluence_ids == get_source_document_ids(up, "confluence", enum_fails)
        deleted_confluence_ids ==
            IF do_confluence
            THEN get_db_document_ids(docs1, "confluence") \ current_confluence_ids
            ELSE {}
    IN  [docs |-> MarkDeleted(docs1, deleted_confluence_ids),
         stats |-> [jira_deleted |-> Cardinality(deleted_jira_ids),
                    confluence_deleted |-> Cardinality(deleted_confluence_ids),
                    total_deleted |-> Cardinality(deleted_jira_ids)
                                        + Cardinality(deleted_confluence_ids)],
         current |-> [S \in {T \in DocTypes : (T = "jira" /\ do_jira)
                                               \/ (T = "confluence" /\ do_confluence)} |->
                        IF S = "jira" THEN current_jira_ids ELSE current_confluence_ids]]

\* DeletionDetector.detect_all_deleted: a source whose enumeration raises is
\* logged and left out
detect_all_deleted(docs, up, enum_fails) ==
    LET j == IF "jira" \in enum_fails THEN [docs |-> docs, count |-> 0]
             ELSE detect_deleted_documents(docs, "jira",
                                           get_source_document_ids(up, "jira", {}))
        c == IF "confluence" \in enum_fails THEN [docs |-> j.docs, count |-> 0]
             ELSE detect_deleted_documents(j.docs, "confluence",
                                           get_source_document_ids(up, "confluence", {}))
    IN  [docs |-> c.docs,
         stats |-> [jira |-> j.count, confluence |-> c.count],
         current |-> [S \in DocTypes \ enum_fails |->
                        get_source_document_ids(up, S, {})]]

\* report of a deletion-detection pass run on its own; untouched: the documents table has
\* not changed since the pass; repeat: the pass before it had the same
\* enumeration and the table had not changed in between
NoDeletionRun ==
    [ran |-> FALSE, current |-> <<>>, untouched |-> FALSE, count |-> 0,
     changed |-> FALSE, repeat |-> FALSE, previous_count |-> 0]

DeletionReport(previous, docs, current, docs_after, count) ==
    [ran |-> TRUE, current |-> current, untouched |-> TRUE, count |-> count,
     changed |-> docs_after # docs,
     repeat |-> previous.ran /\ previous.untouched /\ previous.current = current,
     previous_count |-> previous.count]

\* the report after an operation other than a pass has run on the table
StoreTouched(previous, docs, docs_after) ==
    [previous EXCEPT !.untouched = @ /\ docs_after = docs]

(***************************************************************************)
(* batch/main.py                                                           *)
(***************************************************************************)
\* create_sync_history
create_sync_history(history, sync_type, t) ==
    history \cup {SyncHistoryRow(NextPk(history), sync_type, t)}

\* update_sync_history
update_sync_history(history, pk, status, documents_added, documents_updated, documents_deleted, error_message, t) ==
    {IF r.id = pk
        THEN [r EXCEPT !.status = status,
                       !.documents_added = documents_added,
                       !.documents_updated = documents_updated,
                       !.documents_deleted = documents_deleted,
                       !.error_message = error_message,
                       !.completed_at = t]
        ELSE r : r \in history}

MSG_SYNC_FAILED_AFTER_RETRIES == "sync failed after retries: connection error"
MSG_SYNC_FAILED == "sync failed: connection error"

\* run_batch, the end of one source's block: the record's final status from
\* the result r of the sync call
BatchRecord(history, pk, r, use_retry, completed) ==
    IF r.raised
    THEN update_sync_history(history, pk, "failed", 0, 0, 0,
                             IF use_retry THEN MSG_SYNC_FAILED_AFTER_RETRIES
                             ELSE MSG_SYNC_FAILED, completed)
    ELSE update_sync_history(history, pk, "success", r.stats.added, r.stats.updated,
                             r.stats.deleted, "None", completed)

\* the result of a block that does not run
NotSynced(docs) ==
    [raised |-> FALSE, docs |-> docs, stats |-> BatchStats({}), outcome |-> {},
     last_sync |-> None]

SourcesOf(source) == IF source = "all" THEN DocTypes ELSE {source}

NoSyncRun == [kind |-> "none", sync_type |-> "none", full_sync |-> FALSE, parts |-> <<>>]

(***************************************************************************)
(* Initial values of the synchronisation state                             *)
(***************************************************************************)
InitSyncVars ==
    /\ upstream = [d \in DocIds |-> UpstreamItem(1, 0)]
    /\ syncHistory = {}
    /\ now = 0
    /\ syncRun = NoSyncRun
    /\ deletionRun = NoDeletionRun

(***************************************************************************)
(* batch/retry_handler.py, the retry loop call by call.  An exception is   *)
(* the name of its class; the function returns the value "ok".             *)
(***************************************************************************)
MaxRetries == 2

ExceptionTypes == {"ConnectionError", "ValueError", "KeyboardInterrupt"}

\* issubclass(e, cls) for the classes above
IsSubclass(e, cls) ==
    \/ e = cls
    \/ cls = "Exception" /\ e \in {"ConnectionError", "ValueError"}
    \/ cls = "BaseException"

\* "except exceptions as e" with a tuple of classes
Catches(exceptions, e) == \E cls \in exceptions : IsSubclass(e, cls)

\* the default of the parameter exceptions
DEFAULT_EXCEPTIONS == {"Exception"}

DEFAULT_INITIAL_DELAY == 60
DEFAULT_MAX_DELAY == 3600
DEFAULT_BACKOFF_FACTOR == 2

NoOutcome == [kind |-> "none", exc |-> "None", last_exception |-> "None"]

\* no wrapped call is under way
NoRetry ==
    [pc |-> "idle", kind |-> "none", func |-> "None", max_retries |-> 0, exceptions |-> {},
     explicit |-> FALSE, initial_delay |-> 0, max_delay |-> 0, backoff_factor |-> 0,
     attempt |-> 0, delay |-> 0, calls |-> <<>>, sleeps |-> <<>>, on_retry |-> <<>>,
     events |-> <<>>, on_success |-> <<>>, on_failure |-> <<>>, succeeded |-> FALSE,
     outcome |-> NoOutcome]

\* the wrapped call starts: "delay = initial_delay; last_exception = None";
\* explicit: the caller passed the parameter exceptions
StartWrapped(kind, max_retries, explicit, exceptions, initial_delay, max_delay, factor) ==
    [NoRetry EXCEPT !.pc = "loop", !.kind = kind, !.max_retries = max_retries,
                    !.exceptions = IF explicit THEN exceptions ELSE DEFAULT_EXCEPTIONS,
                    !.explicit = explicit, !.initial_delay = initial_delay,
                    !.max_delay = max_delay, !.backoff_factor = factor,
                    !.delay = initial_delay]

\* batch/main.py: sync_jira_with_retry and sync_confluence_with_retry, the sync
\* function of doc_type under @retry_with_backoff(max_retries=3, initial_delay=60,
\* max_delay=3600)
sync_with_retry_call(doc_type) ==
    [StartWrapped("retry_with_backoff", 3, FALSE, {}, 60, 3600, DEFAULT_BACKOFF_FACTOR)
        EXCEPT !.func = doc_type]

\* one pass of "for attempt in range(max_retries + 1)" in which func returns
AttemptReturns(r) ==
    [r EXCEPT !.pc = "returned", !.calls = Append(r.calls, "ok"),
              !.outcome = [kind |-> "value", exc |-> "None",
                           last_exception |-> r.outcome.last_exception]]

\* a retry loop that gives up one attempt early
AttemptRaises_one_attempt_short(r, e) ==
    IF ~Catches(r.exceptions, e)
    THEN [r EXCEPT !.pc = "raised", !.calls = Append(r.calls, e),
                   !.outcome = [kind |-> "exception", exc |-> e,
                                last_exception |-> r.outcome.last_exception]]
    ELSE IF r.attempt + 1 >= r.max_retries
    THEN [r EXCEPT !.pc = "raised", !.calls = Append(r.calls, e),
                   !.outcome = [kind |-> "RetryError", exc |-> "RetryError",
                                last_exception |-> e]]
    ELSE [r EXCEPT !.calls = Append(r.calls, e),
                   !.outcome = [r.outcome EXCEPT !.last_exception = e],
                   !.on_retry = Append(r.on_retry, <<e, r.attempt + 1, Min(r.delay, r.max_delay)>>),
                   !.sleeps = Append(r.sleeps, Min(r.delay, r.max_delay)),
                   !.events = r.events \o <<"on_retry", "sleep">>,
                   !.delay = r.delay * r.backoff_factor,
                   !.attempt = r.attempt + 1]

\* a retry loop that retries whatever was raised
AttemptRaises_retries_everything(r, e) ==
    IF r.attempt = r.max_retries
    THEN [r EXCEPT !.pc = "raised", !.calls = Append(r.calls, e),
                   !.outcome = [kind |-> "RetryError", exc |-> "RetryError",
                                last_exception |-> e]]
    ELSE [r EXCEPT !.calls = Append(r.calls, e),
                   !.outcome = [r.outcome EXCEPT !.last_exception = e],
                   !.on_retry = Append(r.on_retry, <<e, r.attempt + 1, Min(r.delay, r.max_delay)>>),
                   !.sleeps = Append(r.sleeps, Min(r.delay, r.max_delay)),
                   !.events = r.events \o <<"on_retry", "sleep">>,
                   !.delay = r.delay * r.backoff_factor,
                   !.attempt = r.attempt + 1]

\* a retry loop that ignores max_delay
AttemptRaises_uncapped_delay(r, e) ==
    IF ~Catches(r.exceptions, e)
    THEN [r EXCEPT !.pc = "raised", !.calls = Append(r.calls, e),
                   !.outcome = [kind |-> "exception", exc |-> e,
                                last_exception |-> r.outcome.last_exception]]
    ELSE IF r.attempt = r.max_retries
    THEN [r EXCEPT !.pc = "raised", !.calls = Append(r.calls, e),
                   !.outcome = [kind |-> "RetryError", exc |-> "RetryError",
                                last_exception |-> e]]
    ELSE [r EXCEPT !.calls = Append(r.calls, e),
                   !.outcome = [r.outcome EXCEPT !.last_exception = e],
                   !.on_retry = Append(r.on_retry, <<e, r.attempt + 1, r.delay>>),
                   !.sleeps = Append(r.sleeps, r.delay),
                   !.events = r.events \o <<"on_retry", "sleep">>,
                   !.delay = r.delay * r.backoff_factor,
                   !.attempt = r.attempt + 1]

\* one pass of the loop in which func raises e: an exception the tuple does
\* not catch leaves the wrapper as it is; on the last attempt RetryError is
\* raised; otherwise on_retry, sleep, and the next pass
AttemptRaises(r, e) ==
    IF ~Catches(r.exceptions, e)
    THEN [r EXCEPT !.pc = "raised", !.calls = Append(r.calls, e),
                   !.outcome = [kind |-> "exception", exc |-> e,
                                last_exception |-> r.outcome.last_exception]]
    ELSE IF r.attempt = r.max_retries
    THEN [r EXCEPT !.pc = "raised", !.calls = Append(r.calls, e),
                   !.on_failure = IF r.kind = "retry_with_callback"
                                  THEN Append(r.on_failure, e) ELSE r.on_failure,
                   !.outcome = [kind |-> "RetryError", exc |-> "RetryError",
                                last_exception |-> e]]
    ELSE [r EXCEPT !.calls = Append(r.calls, e),
                   !.outcome = [r.outcome EXCEPT !.last_exception = e],
                   !.on_retry = Append(r.on_retry, <<e, r.attempt + 1, Min(r.delay, r.max_delay)>>),
                   !.sleeps = Append(r.sleeps, Min(r.delay, r.max_delay)),
                   !.events = r.events \o <<"on_retry", "sleep">>,
                   !.delay = r.delay * r.backoff_factor,
                   !.attempt = r.attempt + 1]

\* retry_with_callback, one pass in which func returns: on_success(result) is
\* called inside the try, so what it raises (cb, "ok" when it returns) is
\* handled by the except clause like an exception of func
AttemptReturnsWithCallback(r, cb) ==
    IF cb = "ok"
    THEN [AttemptReturns(r) EXCEPT !.on_success = Append(r.on_success, "ok")]
    ELSE [AttemptRaises([r EXCEPT !.on_success = Append(r.on_success, "ok")], cb)
             EXCEPT !.calls = Append(r.calls, "ok")]

\* RetryContext.__init__: _attempt = 0, _delay = initial_delay, _succeeded =
\* False, _last_exception = None; pc is the place of the caller's loop
RetryContext(max_retries, initial_delay, max_delay, backoff_factor) ==
    [NoRetry EXCEPT !.pc = "should_retry", !.kind = "RetryContext",
                    !.max_retries = max_retries, !.initial_delay = initial_delay,
                    !.max_delay = max_delay, !.backoff_factor = backoff_factor,
                    !.delay = initial_delay]

\* RetryContext.should_retry, as the condition of "while ctx.should_retry()":
\* the loop ends, RetryError leaves it, or the body runs
should_retry(ctx) ==
    IF ctx.succeeded THEN [ctx EXCEPT !.pc = "done"]
    ELSE IF ctx.attempt > ctx.max_retries
    THEN IF ctx.outcome.last_exception # "None"
         THEN [ctx EXCEPT !.pc = "raised",
                          !.outcome = [kind |-> "RetryError", exc |-> "RetryError",
                                       last_exception |-> ctx.outcome.last_exception]]
         ELSE [ctx EXCEPT !.pc = "done"]
    ELSE [ctx EXCEPT !.pc = "work"]

\* RetryContext.success
success(ctx) ==
    [ctx EXCEPT !.succeeded = TRUE,
                !.outcome = [ctx.outcome EXCEPT !.kind = "value"]]

\* a context that sleeps after every failed attempt
failed_always_sleeps(ctx, exception) ==
    [ctx EXCEPT !.outcome = [ctx.outcome EXCEPT !.last_exception = exception],
                !.attempt = ctx.attempt + 1,
                !.sleeps = Append(ctx.sleeps, Min(ctx.delay, ctx.max_delay)),
                !.delay = ctx.delay * ctx.backoff_factor]

\* RetryContext.failed
failed(ctx, exception) ==
    IF ctx.attempt + 1 <= ctx.max_retries
    THEN [ctx EXCEPT !.outcome = [ctx.outcome EXCEPT !.last_exception = exception],
                     !.attempt = ctx.attempt + 1,
                     !.sleeps = Append(ctx.sleeps, Min(ctx.delay, ctx.max_delay)),
                     !.delay = ctx.delay * ctx.backoff_factor]
    ELSE [ctx EXCEPT !.outcome = [ctx.outcome EXCEPT !.last_exception = exception],
                     !.attempt = ctx.attempt + 1]

\* the body of the loop "try: work(); ctx.success()  except Exception as e:
\* ctx.failed(e)" in which work returns ("ok") or raises e; an exception that
\* is no Exception leaves the loop and the with block
LoopBody(ctx, e) ==
    IF e = "ok"
    THEN [success(ctx) EXCEPT !.pc = "should_retry", !.calls = Append(ctx.calls, "ok")]
    ELSE IF Catches(DEFAULT_EXCEPTIONS, e)
    THEN [failed(ctx, e) EXCEPT !.pc = "should_retry", !.calls = Append(ctx.calls, e)]
    ELSE [ctx EXCEPT !.pc = "raised", !.calls = Append(ctx.calls, e),
                     !.outcome = [kind |-> "exception", exc |-> e,
                                  last_exception |-> ctx.outcome.last_exception]]

NoSearchCall == [called |-> FALSE, query |-> <<>>, top_k |-> 0, hits |-> 0,
                 doc_type |-> "", include_deleted |-> FALSE,
                 date_from |-> None, date_to |-> None,
                 init_raised |-> FALSE, raised |-> FALSE, results |-> <<>>]

NoEmbedCall == [op |-> "none", texts |-> <<>>, batch_size |-> None, fails |-> {},
                provider_inputs |-> <<>>, raised |-> FALSE, embeddings |-> <<>>]

\* svc: the service in use; raised: whether its last call raised; saved: the
\* service as save_index last wrote it, intact while the two files are as
\* written; loaded: the fresh service after load_index
NoVdb == [svc |-> VectorDBService, raised |-> FALSE,
          saved |-> VectorDBService, intact |-> FALSE,
          loaded |-> VectorDBService, load_raised |-> FALSE]

InitUtilVars ==
    /\ retry = NoRetry
    /\ searchCall = NoSearchCall
    /\ embedCall = NoEmbedCall
    /\ vdb = NoVdb

(***************************************************************************)
(* Text.  A string is a sequence of one-character strings, so that strip,  *)
(* split, lower and substring search are computed, not assumed.            *)
(***************************************************************************)
Lower(ch) ==
    CASE ch = "I" -> "i" [] ch = "R" -> "r" [] ch = "E" -> "e" [] ch = "L" -> "l"
      [] ch = "V" -> "v" [] ch = "A" -> "a" [] ch = "N" -> "n" [] ch = "T" -> "t"
      [] ch = "O" -> "o"
      [] OTHER -> ch

lower(str) == [i \in 1..Len(str) |-> Lower(str[i])]

\* needle in haystack
Contains(haystack, needle) ==
    \E i \in 0..(Len(haystack) - Len(needle)) :
        \A j \in 1..Len(needle) : haystack[i + j] = needle[j]

\* `not s or not s.strip()`
IsBlank(str) == \A i \in 1..Len(str) : str[i] = " "

\* s.split(): the maximal runs of non-space characters
RECURSIVE SplitFrom(_, _, _)
SplitFrom(str, i, word) ==
    IF i > Len(str) THEN (IF word = <<>> THEN <<>> ELSE <<word>>)
    ELSE IF str[i] = " "
         THEN (IF word = <<>> THEN <<>> ELSE <<word>>) \o SplitFrom(str, i + 1, <<>>)
         ELSE SplitFrom(str, i + 1, Append(word, str[i]))

split(str) == SplitFrom(str, 1, <<>>)

STR_relevant == <<"r", "e", "l", "e", "v", "a", "n", "t">>

STR_irrelevant == <<"i", "r">> \o STR_relevant

(***************************************************************************)
(* app/core/workflow/state.py                                              *)
(***************************************************************************)
\* date_filter: None, or {"from": .., "to": ..} whose values are None, a date, or
\* 0 for a string that is not an ISO date
NoDateFilter == [is_none |-> TRUE, from |-> None, to |-> None]

DateFilter(from, to) == [is_none |-> FALSE, from |-> from, to |-> to]

NoAnalyzedQuery ==
    [is_none |-> TRUE, original_query |-> <<>>, intent |-> "", keywords |-> <<>>,
     doc_type_filter |-> "None", date_filter |-> NoDateFilter]

AnalyzedQuery(original_query, intent, keywords, doc_type_filter, date_filter) ==
    [is_none |-> FALSE, original_query |-> original_query, intent |-> intent,
     keywords |-> keywords, doc_type_filter |-> doc_type_filter,
     date_filter |-> date_filter]

create_initial_state(user_query) ==
    [user_query |-> user_query,
     analyzed_query |-> NoAnalyzedQuery,
     search_results |-> <<>>,
     relevance_decision |-> "None",
     response |-> <<>>,
     response_type |-> "None",
     sources |-> <<>>,
     error |-> "None"]

(***************************************************************************)
(* app/core/services/llm_service.py                                        *)
(* An LLM use is described by its fault ("none", "construct": LLMService() *)
(* raises, "call": the API call raises) and the text the API returns.      *)
(***************************************************************************)
LLMFaults == {"none", "construct", "call"}

\* variant: a failed call counts as not relevant
check_relevance_false_on_failure(search_results, fault, text) ==
    IF search_results = <<>> THEN FALSE
    ELSE IF fault = "call" THEN FALSE
    ELSE Contains(lower(text), STR_relevant)

\* LLMService.check_relevance, lines 286-299 (the client was constructed)
check_relevance(search_results, fault, text) ==
    IF search_results = <<>> THEN FALSE
    ELSE IF fault = "call" THEN TRUE
    ELSE Contains(lower(text), STR_relevant)

\* LLMService.analyze_query: the reply is a JSON object, some other JSON
\* value, or not JSON at all; a failed call propagates
AnalysisFallback_without_keywords(query) ==
    [kind |-> "dict", intent |-> "question", keywords |-> <<>>,
     has_keywords |-> TRUE, doc_type_filter |-> "None", date_filter |-> NoDateFilter]

AnalysisFallback(query) ==
    [kind |-> "dict", intent |-> "question", keywords |-> split(query),
     has_keywords |-> TRUE, doc_type_filter |-> "None", date_filter |-> NoDateFilter]

analyze_query(query, fault, reply) ==
    IF fault = "call" THEN [raised |-> TRUE, value |-> AnalysisFallback(query)]
    ELSE IF reply.kind = "invalid_json"
         THEN [raised |-> FALSE, value |-> AnalysisFallback(query)]
         ELSE [raised |-> FALSE, value |-> reply]

(***************************************************************************)
(* app/core/agents/query_analyzer.py                                       *)
(***************************************************************************)
query_analyzer(state, fault, reply) ==
    LET user_query == state.user_query
        fallback == [state EXCEPT
            !.analyzed_query = AnalyzedQuery(user_query, "question", split(user_query),
                                             "None", NoDateFilter),
            !.error = "Query analysis error"]
    IN  IF IsBlank(user_query)
        THEN [state EXCEPT !.analyzed_query = AnalyzedQuery(<<>>, "other", <<>>, "None",
                                                         NoDateFilter)]
        ELSE IF fault = "construct" THEN fallback
        ELSE LET r == analyze_query(user_query, fault, reply) IN
             IF r.raised \/ r.value.kind # "dict" THEN fallback
             ELSE LET analysis == r.value IN
                  [state EXCEPT !.analyzed_query =
                      AnalyzedQuery(user_query,
                          IF analysis.intent = "missing" THEN "question" ELSE analysis.intent,
                          IF analysis.has_keywords THEN analysis.keywords ELSE split(user_query),
                          analysis.doc_type_filter, analysis.date_filter)]

(***************************************************************************)
(* VectorDBService.search / search_with_scores.  Distances and similarity  *)
(* scores are in hundredths.                                               *)
(***************************************************************************)
Similarity(distance) == (100 * 100) \div (100 + distance)

\* the k nearest ordinals by ascending distance, as IndexFlatL2.search returns
RECURSIVE Nearest(_, _, _)
Nearest(dist, candidates, k) ==
    IF k = 0 \/ candidates = {} THEN <<>>
    ELSE LET best == CHOOSE i \in candidates :
                        \A j \in candidates :
                            dist[i] < dist[j] \/ (dist[i] = dist[j] /\ i <= j)
         IN  <<best>> \o Nearest(dist, candidates \ {best}, k - 1)

search(svc, dist, k) ==
    IF ~svc.initialized \/ ntotal(svc) = 0 THEN <<>>
    ELSE LET ids == Nearest(dist, 0..(ntotal(svc) - 1), Min(k, ntotal(svc))) IN
         [i \in 1..Len(ids) |->
            [index_id |-> ids[i], distance |-> dist[ids[i]],
             metadata |-> search_metadata(svc, ids[i])]]

\* VectorDBService.search, lines 127-141: a query vector of another length
\* than the index dimension raises ValueError, once the index is known to
\* hold vectors
SearchRaises(svc, query_dimension) ==
    svc.initialized /\ ntotal(svc) # 0 /\ query_dimension # svc.dimension

\* score_threshold = None is written as 0
search_with_scores(svc, dist, k, score_threshold) ==
    LET results == search(svc, dist, k)
        scored == [i \in 1..Len(results) |->
                     [index_id |-> results[i].index_id,
                      distance |-> results[i].distance,
                      similarity_score |-> Similarity(results[i].distance),
                      metadata |-> results[i].metadata]]
    IN  SelectSeq(scored, LAMBDA r : r.similarity_score >= score_threshold)

(***************************************************************************)
(* app/core/services/embedding_service.py                                  *)
(* A vector is written by its length and by the text the provider embedded *)
(* to produce it; the zero vector [0.0] * dimension embeds no text.        *)
(***************************************************************************)
EMBEDDING_DIMENSION == 3072

DEFAULT_BATCH_SIZE == 100

max_chars == 30000

ZeroVector == [dimension |-> EMBEDDING_DIMENSION, zero |-> TRUE, of |-> <<>>]

\* client.embeddings.create: the embedding of one input text by the model
\* text-embedding-3-large
ProviderEmbedding(input) == [dimension |-> EMBEDDING_DIMENSION, zero |-> FALSE, of |-> input]

\* `text[:max_chars]` when the text is longer
Truncate(text) == IF Len(text) > max_chars THEN SubSeq(text, 1, max_chars) ELSE text

\* EmbeddingService.get_embedding; fail: the provider call raises
get_embedding(text, fail) ==
    IF IsBlank(text)
    THEN [raised |-> FALSE, embeddings |-> <<ZeroVector>>, provider_inputs |-> <<>>]
    ELSE IF fail
    THEN [raised |-> TRUE, embeddings |-> <<>>, provider_inputs |-> <<Truncate(text)>>]
    ELSE [raised |-> FALSE, embeddings |-> <<ProviderEmbedding(Truncate(text))>>,
          provider_inputs |-> <<Truncate(text)>>]

\* get_embeddings_batch, lines 153-160: the texts of one sub-batch as they are
\* sent, a blank text replaced by the placeholder " "
PrepareBatch(batch) ==
    [j \in 1..Len(batch) |-> IF IsBlank(batch[j]) THEN <<" ">> ELSE Truncate(batch[j])]

\* variant: a failed sub-batch contributes no vectors
RECURSIVE EmbedBatches_drops_failed_batch(_, _, _, _, _)
EmbedBatches_drops_failed_batch(texts, batch_size_, i, fails, acc) ==
    IF i >= Len(texts) THEN acc
    ELSE LET batch == SubSeq(texts, i + 1, Min(i + batch_size_, Len(texts)))
             batch_num == (i \div batch_size_) + 1
             prepared_batch == PrepareBatch(batch)
             acc1 == [all_embeddings |->
                         IF batch_num \in fails THEN acc.all_embeddings
                         ELSE acc.all_embeddings \o
                              [j \in 1..Len(batch) |-> ProviderEmbedding(prepared_batch[j])],
                      provider_inputs |-> Append(acc.provider_inputs, prepared_batch)]
         IN  EmbedBatches_drops_failed_batch(texts, batch_size_, i + batch_size_, fails, acc1)

\* get_embeddings_batch, lines 148-183: the loop over the sub-batches starting
\* at offset i; fails: the numbers of the sub-batches whose provider call raises
RECURSIVE EmbedBatches(_, _, _, _, _)
EmbedBatches(texts, batch_size_, i, fails, acc) ==
    IF i >= Len(texts) THEN acc
    ELSE LET batch == SubSeq(texts, i + 1, Min(i + batch_size_, Len(texts)))
             batch_num == (i \div batch_size_) + 1
             prepared_batch == PrepareBatch(batch)
             acc1 == [all_embeddings |->
                         acc.all_embeddings \o
                         [j \in 1..Len(batch) |->
                            IF batch_num \in fails THEN ZeroVector
                            ELSE ProviderEmbedding(prepared_batch[j])],
                      provider_inputs |-> Append(acc.provider_inputs, prepared_batch)]
         IN  EmbedBatches(texts, batch_size_, i + batch_size_, fails, acc1)

\* EmbeddingService.get_embeddings_batch; batch_size_ None or 0 selects
\* self.batch_size
get_embeddings_batch(texts, batch_size_, fails) ==
    LET size == IF batch_size_ = None \/ batch_size_ = 0 THEN DEFAULT_BATCH_SIZE
                ELSE batch_size_
        r == EmbedBatches(texts, size, 0, fails,
                          [all_embeddings |-> <<>>, provider_inputs |-> <<>>])
    IN  IF texts = <<>>
        THEN [raised |-> FALSE, embeddings |-> <<>>, provider_inputs |-> <<>>]
        ELSE [raised |-> FALSE, embeddings |-> r.all_embeddings,
              provider_inputs |-> r.provider_inputs]

\* variant: the loop over the hits without the break at top_k
RECURSIVE JoinHits_without_limit(_, _, _, _, _, _, _, _, _)
JoinHits_without_limit(docs, rows, hits, results, top_k, doc_type, include_deleted, date_from, date_to) ==
    IF hits = <<>> THEN results
    ELSE LET hit == hits[1]
             noRef == (hit.metadata.chunk_id = None \/ hit.metadata.chunk_id = 0)
                        /\ hit.metadata.doc_id = ""
             details == get_document_details(docs, rows, hit.metadata.chunk_id,
                            hit.metadata.doc_id, doc_type, include_deleted,
                            date_from, date_to)
             results1 == IF noRef \/ details = NoDetails THEN results
                         ELSE Append(results,
                                [doc_id |-> details.doc_id, doc_type |-> details.doc_type,
                                 chunk_id |-> details.chunk_id,
                                 similarity_score |-> hit.similarity_score,
                                 distance |-> hit.distance])
         IN  JoinHits_without_limit(docs, rows, Tail(hits), results1, top_k, doc_type,
                                    include_deleted, date_from, date_to)

\* search_documents, lines 98-127: join the hits, keep the first top_k
RECURSIVE JoinHits(_, _, _, _, _, _, _, _, _)
JoinHits(docs, rows, hits, results, top_k, doc_type, include_deleted, date_from, date_to) ==
    IF hits = <<>> THEN results
    ELSE LET hit == hits[1]
             noRef == (hit.metadata.chunk_id = None \/ hit.metadata.chunk_id = 0)
                        /\ hit.metadata.doc_id = ""
             details == get_document_details(docs, rows, hit.metadata.chunk_id,
                            hit.metadata.doc_id, doc_type, include_deleted,
                            date_from, date_to)
             results1 == IF noRef \/ details = NoDetails THEN results
                         ELSE Append(results,
                                [doc_id |-> details.doc_id, doc_type |-> details.doc_type,
                                 chunk_id |-> details.chunk_id,
                                 similarity_score |-> hit.similarity_score,
                                 distance |-> hit.distance])
         IN  IF noRef
             THEN JoinHits(docs, rows, Tail(hits), results, top_k, doc_type, include_deleted,
                           date_from, date_to)
             ELSE IF Len(results1) >= top_k THEN results1
             ELSE JoinHits(docs, rows, Tail(hits), results1, top_k, doc_type, include_deleted,
                           date_from, date_to)

\* RAGService.search_documents; fault "embed_call": get_embedding raises (and
\* is caught), fault "db": the document store raises (and propagates)
search_documents(svc, docs, rows, query, top_k, score_threshold, doc_type, include_deleted, date_from, date_to, fault, dist) ==
    LET hits == search_with_scores(svc, dist, top_k * 3, score_threshold) IN
    IF IsBlank(query) THEN [raised |-> FALSE, results |-> <<>>]
    ELSE IF fault = "embed_call" THEN [raised |-> FALSE, results |-> <<>>]
    ELSE IF SearchRaises(svc, EMBEDDING_DIMENSION) THEN [raised |-> TRUE, results |-> <<>>]
    ELSE IF hits = <<>> THEN [raised |-> FALSE, results |-> <<>>]
    ELSE IF fault = "db" THEN [raised |-> TRUE, results |-> <<>>]
    ELSE [raised |-> FALSE,
          results |-> JoinHits(docs, rows, hits, <<>>, top_k, doc_type, include_deleted,
                              date_from, date_to)]

(***************************************************************************)
(* app/core/agents/rag_searcher.py                                         *)
(* fault: "none", "service_init" (RAGService() raises), "embed_call"       *)
(* (get_embedding raises), "db" (the document store raises)                *)
(***************************************************************************)
SearchFaults == {"none", "service_init", "embed_call", "db"}

TOP_K == 5

SCORE_THRESHOLD == 30

\* " ".join(keywords)
RECURSIVE JoinWords(_)
JoinWords(words) ==
    IF words = <<>> THEN <<>>
    ELSE IF Len(words) = 1 THEN words[1]
    ELSE words[1] \o <<" ">> \o JoinWords(Tail(words))

\* rag_searcher, lines 58-68: datetime.fromisoformat of a filter value; a
\* missing value and a string that is not a date both leave the bound None
ParseDate(value) == IF value = None \/ value = 0 THEN None ELSE value

rag_searcher(state, docs, rows, ff, mf, fault, dist) ==
    LET analyzed_query == state.analyzed_query
        search_query == IF analyzed_query.original_query # <<>>
                        THEN analyzed_query.original_query
                        ELSE JoinWords(analyzed_query.keywords)
        doc_type == IF analyzed_query.doc_type_filter \in {"None", "all"} THEN ""
                    ELSE analyzed_query.doc_type_filter
        date_filter == analyzed_query.date_filter
        date_from == IF date_filter.is_none THEN None ELSE ParseDate(date_filter.from)
        date_to == IF date_filter.is_none THEN None ELSE ParseDate(date_filter.to)
        r == search_documents(RAGServiceIndex(ff, mf), docs, rows, search_query,
                        TOP_K, SCORE_THRESHOLD, doc_type, FALSE, date_from, date_to,
                        fault, dist)
    IN  IF analyzed_query.is_none THEN [state EXCEPT !.search_results = <<>>]
        ELSE IF IsBlank(search_query) THEN [state EXCEPT !.search_results = <<>>]
        ELSE IF fault = "service_init" \/ r.raised
             THEN [state EXCEPT !.search_results = <<>>, !.error = "Search error"]
        ELSE [state EXCEPT !.search_results =
                [i \in 1..Len(r.results) |->
                    [doc_id |-> r.results[i].doc_id, doc_type |-> r.results[i].doc_type,
                     similarity_score |-> r.results[i].similarity_score]]]

\* TRUE when rag_searcher makes an external call that fails: the service
\* construction and the embedding call for every search it attempts, the
\* document store once the index has returned hits
SearchCallFails(state, ff, mf, fault, dist) ==
    LET analyzed_query == state.analyzed_query
        search_query == IF analyzed_query.original_query # <<>>
                        THEN analyzed_query.original_query
                        ELSE JoinWords(analyzed_query.keywords)
    IN  /\ ~analyzed_query.is_none
        /\ ~IsBlank(search_query)
        /\ \/ fault \in {"service_init", "embed_call"}
           \/ /\ fault = "db"
              /\ search_with_scores(RAGServiceIndex(ff, mf), dist, TOP_K * 3,
                                    SCORE_THRESHOLD) # <<>>

(***************************************************************************)
(* app/core/agents/relevance_checker.py                                    *)
(***************************************************************************)
SIMILARITY_THRESHOLD == 35

\* TRUE when relevance_checker reaches check 3 and constructs LLMService
ReachesSemanticCheck(state) ==
    /\ state.search_results # <<>>
    /\ ~(state.search_results[1].similarity_score < SIMILARITY_THRESHOLD)

\* variant: check 1 (no search results) falls through to the semantic check
relevance_checker_semantic_check_on_empty(state, fault, text) ==
    LET search_results == state.search_results
        top_score == IF search_results # <<>> THEN search_results[1].similarity_score ELSE 0
    IN  IF search_results # <<>> /\ top_score < SIMILARITY_THRESHOLD
        THEN [state EXCEPT !.relevance_decision = "irrelevant"]
        ELSE IF fault = "construct"
        THEN [state EXCEPT !.relevance_decision = "relevant"]
        ELSE IF check_relevance(SubSeq(search_results, 1, Min(3, Len(search_results))),
                                fault, text)
        THEN [state EXCEPT !.relevance_decision = "relevant"]
        ELSE [state EXCEPT !.relevance_decision = "irrelevant"]

\* variant: check 2 (the score floor) left out
relevance_checker_without_floor(state, fault, text) ==
    IF state.search_results = <<>>
    THEN [state EXCEPT !.relevance_decision = "irrelevant"]
    ELSE IF fault = "construct"
    THEN [state EXCEPT !.relevance_decision = "relevant"]
    ELSE IF check_relevance(state.search_results, fault, text)
    THEN [state EXCEPT !.relevance_decision = "relevant"]
    ELSE [state EXCEPT !.relevance_decision = "irrelevant"]

relevance_checker(state, fault, text) ==
    LET search_results == state.search_results
        top_score == IF search_results # <<>> THEN search_results[1].similarity_score ELSE 0
    IN  IF search_results = <<>>
        THEN [state EXCEPT !.relevance_decision = "irrelevant"]
        ELSE IF top_score < SIMILARITY_THRESHOLD
        THEN [state EXCEPT !.relevance_decision = "irrelevant"]
        ELSE IF fault = "construct"
        THEN [state EXCEPT !.relevance_decision =
                IF top_score >= SIMILARITY_THRESHOLD THEN "relevant" ELSE "irrelevant"]
        ELSE IF check_relevance(SubSeq(search_results, 1, Min(3, Len(search_results))),
                                fault, text)
        THEN [state EXCEPT !.relevance_decision = "relevant"]
        ELSE [state EXCEPT !.relevance_decision = "irrelevant"]

\* variant: everything but irrelevant is routed to rag_responder
should_use_rag_unless_irrelevant(state) ==
    IF state.relevance_decision = "irrelevant" THEN "llm_fallback" ELSE "rag_responder"

\* state.get("relevance_decision", "irrelevant"): a missing key reads as
\* "irrelevant"; None is written "None"
should_use_rag(state) ==
    IF state.relevance_decision = "relevant" THEN "rag_responder" ELSE "llm_fallback"

(***************************************************************************)
(* app/core/agents/rag_responder.py, llm_fallback.py, response_formatter.py*)
(* A response is a sequence of text segments; "" is <<>>.                  *)
(***************************************************************************)
MSG_NO_DOCUMENTS == <<"no relevant documents found">>
MSG_RAG_ERROR == <<"error while generating the response">>
MSG_FALLBACK_ERROR == <<"no documents found and error while generating the response">>
MSG_NO_RESPONSE == <<"cannot generate a response">>
MSG_WORKFLOW_ERROR == <<"error while processing the request">>
DISCLAIMER == <<"not based on company documents">>
SOURCES_SECTION == <<"sources section">>

rag_responder(state, fault, text) ==
    LET search_results == state.search_results
        top == SubSeq(search_results, 1, Min(3, Len(search_results)))
        sources == [i \in 1..Len(top) |->
                      [doc_id |-> top[i].doc_id, doc_type |-> top[i].doc_type]]
    IN  IF search_results = <<>>
        THEN [state EXCEPT !.response = MSG_NO_DOCUMENTS, !.response_type = "rag",
                           !.sources = <<>>]
        ELSE IF fault # "none"
        THEN [state EXCEPT !.response = MSG_RAG_ERROR, !.response_type = "rag",
                           !.sources = <<>>, !.error = "Response generation error"]
        ELSE [state EXCEPT !.response = text, !.response_type = "rag",
                           !.sources = sources]

llm_fallback(state, fault, text) ==
    LET intent == IF state.analyzed_query.is_none THEN "question"
                  ELSE state.analyzed_query.intent
        disclaimer == IF intent = "greeting" THEN <<>> ELSE DISCLAIMER
    IN  IF fault # "none"
        THEN [state EXCEPT !.response = MSG_FALLBACK_ERROR,
                           !.response_type = "llm_fallback",
                           !.sources = <<>>, !.error = "Fallback generation error"]
        ELSE [state EXCEPT !.response = text \o disclaimer,
                           !.response_type = "llm_fallback", !.sources = <<>>]

\* variant: the empty-response replacement left out
response_formatter_keeps_empty(state) ==
    IF state.sources # <<>> /\ state.response_type = "rag" /\ state.response # <<>>
    THEN [state EXCEPT !.response = state.response \o SOURCES_SECTION]
    ELSE state

response_formatter(state) ==
    IF state.response = <<>>
    THEN [state EXCEPT !.response = MSG_NO_RESPONSE]
    ELSE IF state.sources # <<>> /\ state.response_type = "rag"
    THEN [state EXCEPT !.response = state.response \o SOURCES_SECTION]
    ELSE state

(***************************************************************************)
(* app/core/workflow/graph.py                                              *)
(***************************************************************************)
NoResult == [returned |-> FALSE, response |-> <<>>, response_type |-> "None",
             sources |-> <<>>, relevance_decision |-> "None", error |-> "None"]

\* run_workflow, lines 106-113: the result built from the final state
ResultOf(final_state) ==
    [returned |-> TRUE,
     response |-> final_state.response,
     response_type |-> final_state.response_type,
     sources |-> final_state.sources,
     relevance_decision |-> final_state.relevance_decision,
     error |-> final_state.error]

\* run_workflow, lines 122-129: the result built from an escaped exception
ErrorResult(message) ==
    [returned |-> TRUE,
     response |-> MSG_WORKFLOW_ERROR,
     response_type |-> "error",
     sources |-> <<>>,
     relevance_decision |-> "None",
     error |-> message]

\* variant: the rag_responder edge leads to llm_fallback
NextNode_chained_responders(node, state) ==
    CASE node = "query_analyzer"     -> "rag_searcher"
      [] node = "rag_searcher"       -> "relevance_checker"
      [] node = "relevance_checker"  -> should_use_rag(state)
      [] node = "rag_responder"      -> "llm_fallback"
      [] node = "llm_fallback"       -> "response_formatter"
      [] node = "response_formatter" -> "END"

\* the edges of create_workflow
NextNode(node, state) ==
    CASE node = "query_analyzer"     -> "rag_searcher"
      [] node = "rag_searcher"       -> "relevance_checker"
      [] node = "relevance_checker"  -> should_use_rag(state)
      [] node = "rag_responder"      -> "response_formatter"
      [] node = "llm_fallback"       -> "response_formatter"
      [] node = "response_formatter" -> "END"

Nodes == {"query_analyzer", "rag_searcher", "relevance_checker", "rag_responder",
          "llm_fallback", "response_formatter"}

(***************************************************************************)
(* Initial values of the index lifecycle state                             *)
(***************************************************************************)
NoStats == [vectors_added |-> 0, vectors_removed |-> 0, total_vectors |-> 0, errors |-> 0]

InitFaissVars ==
    /\ chunks = {}
    /\ faissFile = NoIndexFile
    /\ metaFile = NoFile
    /\ faissStats = NoStats
    /\ faissAdded = {}

\* the store a first sync of the three upstream items leaves behind
SyncedStore ==
    {DocumentRow(1, "jira-A", "jira", 2, FALSE),
     DocumentRow(2, "jira-B", "jira", 1, FALSE),
     DocumentRow(3, "confluence-P", "confluence", 1, FALSE)}

(***************************************************************************)
(* Specification of the query pipeline                                     *)
(***************************************************************************)
\* the inputs of the last step: the injected fault, the LLM reply, and whether
\* an external call of the stage was made and failed
NoInput == [fault |-> "none", text |-> <<>>, failed |-> FALSE]

InitChatVars ==
    /\ pc = "idle"
    /\ chatState = create_initial_state(<<>>)
    /\ stagesRun = <<>>
    /\ llmUsed = {}
    /\ result = NoResult
    /\ lastInput = NoInput

Queries == {<<>>, <<" ">>, <<"h", "i">>, <<"a", "p", "i", " ", "g">>}

AnalysisReply(kind, intent, has_keywords, keywords, doc_type_filter, date_filter) ==
    [kind |-> kind, intent |-> intent, has_keywords |-> has_keywords,
     keywords |-> keywords, doc_type_filter |-> doc_type_filter,
     date_filter |-> date_filter]

AnalysisReplies ==
    {AnalysisReply("dict", "question", TRUE, <<<<"a", "p", "i">>>>, "None", NoDateFilter),
     AnalysisReply("dict", "greeting", FALSE, <<>>, "None", NoDateFilter),
     AnalysisReply("dict", "missing", FALSE, <<>>, "jira", NoDateFilter),
     AnalysisReply("dict", "search", TRUE, <<>>, "all", NoDateFilter),
     AnalysisReply("dict", "question", FALSE, <<>>, "None", DateFilter(2, 0)),
     AnalysisReply("invalid_json", "", FALSE, <<>>, "None", NoDateFilter),
     AnalysisReply("nondict", "", FALSE, <<>>, "None", NoDateFilter)}

Distances == {11, 185, 186, 400}

RelevanceTexts ==
    {STR_relevant, STR_irrelevant,
     <<"I", "R", "R", "E", "L", "E", "V", "A", "N", "T">>, <<"n", "o">>}

GenerationTexts == {<<>>, <<"answer">>}

ExceptionMessages == {"graph runtime error", "recursion limit reached"}

\* the rows of a store with their column updated_at: the time of the sync that
\* last wrote the row
Dated(docs) == {[updated_at |-> d.id] @@ d : d \in docs}

\* the store and index a query runs against: jira-B is soft-deleted, every
\* document has one chunk, and the index file is absent, empty, built with metadata
\* (build_vector_db.py) or written by update_faiss_index
ChatStore == detect_deleted_documents(SyncedStore, "jira", {"jira-A"}).docs

ChatChunks == {DocumentChunkRow(d.id, d.id, 0, d.content, d.id - 1) : d \in SyncedStore}

BuiltIndex ==
    add_vectors(create_index(VectorDBService), <<1, 2, 3>>,
                <<MetaRecord(1, "jira-A"), MetaRecord(2, "jira-B"),
                  MetaRecord(3, "confluence-P")>>).svc

ChatIndexFiles ==
    {[faiss |-> NoIndexFile, meta |-> NoFile],
     save_index(create_index(VectorDBService)),
     save_index(BuiltIndex),
     update_faiss_index(ChatStore,
        {[c EXCEPT !.faiss_index_id = None] : c \in ChatChunks}, NoIndexFile, NoFile, {}).files}

StartRun(user_query) ==
    /\ pc = "idle"
    /\ pc' = "query_analyzer"
    /\ chatState' = create_initial_state(user_query)
    /\ lastOp' = "run_workflow"
    /\ UNCHANGED <<documents, faissVars, stagesRun, llmUsed, result, lastInput, syncVars, utilVars>>

\* one node of the compiled graph runs and the edge out of it is taken
RunNode(node, state1, usesLLM, input) ==
    /\ pc = node
    /\ chatState' = state1
    /\ stagesRun' = Append(stagesRun, node)
    /\ llmUsed' = IF usesLLM THEN llmUsed \cup {node} ELSE llmUsed
    /\ pc' = NextNode(node, state1)
    /\ lastOp' = node
    /\ lastInput' = input
    /\ UNCHANGED <<documents, faissVars, result, syncVars, utilVars>>

StageQueryAnalyzer(fault, reply) ==
    /\ pc = "query_analyzer"
    /\ RunNode("query_analyzer", query_analyzer(chatState, fault, reply),
               ~IsBlank(chatState.user_query),
               [fault |-> fault, text |-> <<>>, reply |-> reply.kind,
                failed |-> fault # "none" /\ ~IsBlank(chatState.user_query)])

StageRagSearcher(fault, dist) ==
    /\ pc = "rag_searcher"
    /\ RunNode("rag_searcher",
               rag_searcher(chatState, documents, chunks, faissFile, metaFile, fault, dist),
               FALSE,
               [fault |-> fault, text |-> <<>>,
                failed |-> SearchCallFails(chatState, faissFile, metaFile, fault, dist)])

StageRelevanceChecker(fault, text) ==
    /\ pc = "relevance_checker"
    /\ RunNode("relevance_checker", relevance_checker(chatState, fault, text),
               ReachesSemanticCheck(chatState),
               [fault |-> fault, text |-> text,
                failed |-> fault # "none" /\ ReachesSemanticCheck(chatState)])

StageRagResponder(fault, text) ==
    /\ pc = "rag_responder"
    /\ RunNode("rag_responder", rag_responder(chatState, fault, text),
               chatState.search_results # <<>>,
               [fault |-> fault, text |-> text,
                failed |-> fault # "none" /\ chatState.search_results # <<>>])

StageLlmFallback(fault, text) ==
    /\ pc = "llm_fallback"
    /\ RunNode("llm_fallback", llm_fallback(chatState, fault, text), TRUE,
               [fault |-> fault, text |-> text, failed |-> fault # "none"])

StageResponseFormatter ==
    /\ pc = "response_formatter"
    /\ RunNode("response_formatter", response_formatter(chatState), FALSE, NoInput)

\* app.invoke returned: run_workflow builds the result from the final state
ReturnResult ==
    /\ pc = "END"
    /\ result' = ResultOf(chatState)
    /\ pc' = "done"
    /\ lastOp' = "return"
    /\ UNCHANGED <<documents, faissVars, chatState, stagesRun, llmUsed, lastInput, syncVars, utilVars>>

\* app.invoke raised: run_workflow's except branch builds the error result
InvokeRaises(message) ==
    /\ pc \in Nodes
    /\ result' = ErrorResult(message)
    /\ pc' = "done"
    /\ lastOp' = "except"
    /\ lastInput' = [fault |-> message, text |-> <<>>, failed |-> FALSE]
    /\ UNCHANGED <<documents, faissVars, chatState, stagesRun, llmUsed, syncVars, utilVars>>

InitChat ==
    /\ documents = Dated(ChatStore)
    /\ chunks = ChatChunks
    /\ \E f \in ChatIndexFiles : faissFile = f.faiss /\ metaFile = f.meta
    /\ faissStats = NoStats
    /\ faissAdded = {}
    /\ InitChatVars
    /\ InitSyncVars
    /\ InitUtilVars
    /\ lastOp = "init"

NextChat ==
    \/ \E q \in Queries : StartRun(q)
    \/ \E fault \in LLMFaults : \E reply \in AnalysisReplies :
          StageQueryAnalyzer(fault, reply)
    \/ \E fault \in SearchFaults : \E dist \in [0..2 -> Distances] :
          StageRagSearcher(fault, dist)
    \/ \E fault \in LLMFaults : \E text \in RelevanceTexts :
          StageRelevanceChecker(fault, text)
    \/ \E fault \in LLMFaults : \E text \in GenerationTexts :
          StageRagResponder(fault, text)
    \/ \E fault \in LLMFaults : \E text \in GenerationTexts :
          StageLlmFallback(fault, text)
    \/ StageResponseFormatter
    \/ ReturnResult
    \/ \E message \in ExceptionMessages : InvokeRaises(message)

(***************************************************************************)
(* Specification of the index lifecycle                                    *)
(***************************************************************************)
FaissProcessChunks(document_ids) ==
    /\ chunks' = process_document_chunks(documents, chunks, document_ids, FALSE)
    /\ Cardinality(chunks') <= MaxChunkRows
    /\ lastOp' = "process_document_chunks"
    /\ UNCHANGED <<documents, faissFile, metaFile, faissStats, faissAdded, chatVars, syncVars, utilVars>>

FaissDetectDeleted(doc_type, current_doc_ids) ==
    /\ documents' = detect_deleted_documents(documents, doc_type, current_doc_ids).docs
    /\ lastOp' = "detect_deleted_documents"
    /\ UNCHANGED <<faissVars, chatVars, syncVars, utilVars>>

FaissUpdateIndex(failing) ==
    LET r == update_faiss_index(documents, chunks, faissFile, metaFile, failing) IN
    /\ chunks' = r.rows
    /\ faissFile' = r.files.faiss
    /\ metaFile' = r.files.meta
    /\ faissStats' = r.stats
    /\ faissAdded' = r.added
    /\ lastOp' = "update_faiss_index"
    /\ UNCHANGED <<documents, chatVars, syncVars, utilVars>>

FaissRebuildIndex(failing) ==
    /\ \E r \in {rebuild_faiss_index(documents, chunks, faissFile, metaFile, failing)} :
          /\ chunks' = r.rows
          /\ faissFile' = r.files.faiss
          /\ metaFile' = r.files.meta
          /\ faissStats' = r.stats
          /\ faissAdded' = r.added
    /\ lastOp' = "rebuild_faiss_index"
    /\ UNCHANGED <<documents, chatVars, syncVars, utilVars>>

InitFaiss ==
    /\ documents = SyncedStore
    /\ InitFaissVars
    /\ InitChatVars
    /\ InitSyncVars
    /\ InitUtilVars
    /\ lastOp = "init"

NextFaiss ==
    \/ \E document_ids \in SUBSET {d.id : d \in documents} :
          FaissProcessChunks(document_ids)
    \/ \E doc_type \in DocTypes : \E current_doc_ids \in SUBSET IdsOfType(doc_type) :
          FaissDetectDeleted(doc_type, current_doc_ids)
    \/ \E failing \in SUBSET {1} : FaissUpdateIndex(failing)

\* the FAISS maintenance operations followed by one full rebuild, which ends
\* the behaviour
NextRebuild ==
    \/ /\ lastOp # "rebuild_faiss_index"
       /\ \E document_ids \in SUBSET {d.id : d \in documents} :
             FaissProcessChunks(document_ids)
    \/ /\ lastOp # "rebuild_faiss_index"
       /\ \E doc_type \in DocTypes : \E current_doc_ids \in SUBSET IdsOfType(doc_type) :
             FaissDetectDeleted(doc_type, current_doc_ids)
    \/ /\ lastOp # "rebuild_faiss_index"
       /\ \E failing \in SUBSET {1} : FaissUpdateIndex(failing)
    \/ /\ lastOp # "rebuild_faiss_index"
       /\ \E failing \in SUBSET {1} : FaissRebuildIndex(failing)

(***************************************************************************)
(* Specification of the synchronisation engine                             *)
(***************************************************************************)
BadItems == {{}, {"jira-A"}}

\* use_retry and the number of leading attempts of each source's sync call
\* that raise: none, one, or more than max_retries
BatchFailures ==
    {[use_retry |-> TRUE,  jira |-> 0, confluence |-> 0],
     [use_retry |-> TRUE,  jira |-> 1, confluence |-> 0],
     [use_retry |-> TRUE,  jira |-> DEFAULT_MAX_RETRIES + 1, confluence |-> 0],
     [use_retry |-> TRUE,  jira |-> 0, confluence |-> DEFAULT_MAX_RETRIES + 1],
     [use_retry |-> FALSE, jira |-> 1, confluence |-> 0],
     [use_retry |-> FALSE, jira |-> 0, confluence |-> 0]}

\* detect_deletions and the sources whose enumeration raises
DeletionInputs ==
    {[detect_deletions |-> FALSE, enum_fails |-> {}]}
    \cup {[detect_deletions |-> TRUE, enum_fails |-> e] : e \in {{}, {"jira"}}}

\* the upstream items that change while the engine is observed
UpstreamEdits == {<<"jira-A", 1>>, <<"jira-A", 2>>, <<"confluence-P", 1>>}

\* a minute passes
Tick ==
    /\ now < MaxClock
    /\ now' = now + 1
    /\ UNCHANGED <<documents, faissVars, chatVars, utilVars, lastOp, upstream, syncHistory,
                   syncRun, deletionRun>>

\* an item is created or edited upstream (possibly in a field that is not
\* part of its content)
UpstreamEdit(doc_id, content) ==
    /\ upstream' = [upstream EXCEPT ![doc_id] = UpstreamItem(content, now)]
    /\ UNCHANGED <<documents, faissVars, chatVars, utilVars, lastOp, syncHistory, now, syncRun,
                   deletionRun>>

\* an item is removed upstream
UpstreamDelete(doc_id) ==
    /\ upstream[doc_id].exists
    /\ upstream' = [upstream EXCEPT ![doc_id] = NoItem]
    /\ UNCHANGED <<documents, faissVars, chatVars, utilVars, lastOp, syncHistory, now, syncRun,
                   deletionRun>>

\* scripts/collect_data.py: IncrementalSync(db).run_sync(sync_type); raises:
\* the sources whose fetch raises; elapsed: how long the run takes
RunSync(sync_type, raises, bad, elapsed) ==
    /\ Cardinality(syncHistory) < MaxSyncRecords
    /\ now + elapsed <= MaxClock
    /\ \E pk \in {NextPk(syncHistory)} :
       \E h1 \in {start_sync(syncHistory, sync_type, now)} :
       \E j \in {IF "jira" \in RunSyncSources(sync_type, FALSE)
                 THEN collect_jira_documents(documents, upstream,
                          get_last_sync_time(h1, "jira"), "jira" \in raises, bad)
                 ELSE NotCollected(documents)} :
       \E c \in {IF "confluence" \in RunSyncSources(sync_type, j.raised)
                 THEN collect_confluence_documents(j.docs, upstream,
                          get_last_sync_time(h1, "confluence"),
                          "confluence" \in raises, bad)
                 ELSE NotCollected(j.docs)} :
       \E combined_stats \in {CombineStats(CombineStats(ZeroStats, j.stats), c.stats)} :
          /\ documents' = c.docs
          /\ syncHistory' =
                IF j.raised \/ c.raised
                THEN complete_sync(h1, pk, combined_stats, FALSE, CONNECTION_ERROR,
                                   now + elapsed)
                ELSE complete_sync(h1, pk, combined_stats, TRUE, "None", now + elapsed)
          /\ syncRun' =
                [kind |-> "run_sync", sync_type |-> sync_type, full_sync |-> FALSE,
                 parts |-> [S \in RunSyncSources(sync_type, j.raised) |->
                              IF S = "jira"
                              THEN SyncPart(pk, get_last_sync_time(h1, "jira"), j)
                              ELSE SyncPart(pk, get_last_sync_time(h1, "confluence"), c)]]
          /\ deletionRun' = StoreTouched(deletionRun, documents, c.docs)
    /\ now' = now + elapsed
    /\ lastOp' = "run_sync"
    /\ UNCHANGED <<faissVars, chatVars, utilVars, upstream>>

\* batch/main.py: run_batch(source, full_sync, detect_deletions, use_retry);
\* failures: use_retry and the failing attempts of each source's sync call;
\* elapsed: how long each source's block takes
RunBatch(source, full_sync, deletion, failures, bad, elapsed, failing) ==
    /\ Cardinality(syncHistory) + Cardinality(SourcesOf(source)) <= MaxSyncRecords
    /\ \E t1 \in {IF "jira" \in SourcesOf(source) THEN now + elapsed["jira"] ELSE now} :
       \E t2 \in {IF "confluence" \in SourcesOf(source)
                  THEN t1 + elapsed["confluence"] ELSE t1} :
       \E pk1 \in {NextPk(syncHistory)} :
       \E h1 \in {IF "jira" \in SourcesOf(source)
                  THEN create_sync_history(syncHistory, "jira", now)
                  ELSE syncHistory} :
       \E j \in {IF "jira" \in SourcesOf(source)
                 THEN sync_with_retry(documents, h1, upstream, "jira",
                                      failures.use_retry, failures.jira, bad)
                 ELSE NotSynced(documents)} :
       \E h2 \in {IF "jira" \in SourcesOf(source)
                  THEN BatchRecord(h1, pk1, j, failures.use_retry, t1)
                  ELSE h1} :
       \E pk2 \in {NextPk(h2)} :
       \E h3 \in {IF "confluence" \in SourcesOf(source)
                  THEN create_sync_history(h2, "confluence", t1)
                  ELSE h2} :
       \E c \in {IF "confluence" \in SourcesOf(source)
                 THEN sync_with_retry(j.docs, h3, upstream, "confluence",
                                      failures.use_retry, failures.confluence, bad)
                 ELSE NotSynced(j.docs)} :
       \E h4 \in {IF "confluence" \in SourcesOf(source)
                  THEN BatchRecord(h3, pk2, c, failures.use_retry, t2)
                  ELSE h3} :
       \E d \in {IF deletion.detect_deletions
                 THEN detect_and_mark_deleted(c.docs, source, upstream,
                                              deletion.enum_fails).docs
                 ELSE c.docs} :
       \E rows1 \in {IF full_sync THEN process_document_chunks(d, chunks, {}, FALSE)
                     ELSE chunks} :
          /\ t2 <= MaxClock
          /\ Cardinality(rows1) <= MaxChunkRows
          /\ documents' = d
          /\ syncHistory' = h4
          /\ now' = t2
          /\ syncRun' = [kind |-> "run_batch", sync_type |-> source,
                         full_sync |-> full_sync,
                         parts |-> [S \in SourcesOf(source) |->
                                      IF S = "jira" THEN SyncPart(pk1, j.last_sync, j)
                                      ELSE SyncPart(pk2, c.last_sync, c)]]
          /\ deletionRun' = StoreTouched(deletionRun, documents, d)
          /\ IF full_sync
             THEN \E f \in {update_faiss_index(d, rows1, faissFile, metaFile, failing)} :
                     /\ chunks' = f.rows
                     /\ faissFile' = f.files.faiss
                     /\ metaFile' = f.files.meta
                     /\ faissStats' = f.stats
                     /\ faissAdded' = f.added
             ELSE UNCHANGED faissVars
    /\ lastOp' = "run_batch"
    /\ UNCHANGED <<chatVars, utilVars, upstream>>

\* run_batch(source) whose first sync call is left by an exception that is no
\* Exception (KeyboardInterrupt while the call runs or the retry wrapper
\* sleeps): neither "except RetryError" nor "except Exception" catches it, the
\* finally clause closes the session, which discards what the sync call has
\* not committed, and run_batch raises
RunBatchInterrupted(source) ==
    /\ Cardinality(syncHistory) < MaxSyncRecords
    /\ \E S \in {IF "jira" \in SourcesOf(source) THEN "jira" ELSE "confluence"} :
       \E pk \in {NextPk(syncHistory)} :
       \E h1 \in {create_sync_history(syncHistory, S, now)} :
          /\ syncHistory' = h1
          /\ syncRun' = [kind |-> "run_batch", sync_type |-> source, full_sync |-> FALSE,
                         parts |-> [T \in {S} |->
                                      [record_id |-> pk,
                                       last_sync |-> IF S = "jira"
                                                     THEN get_last_jira_sync_time(h1)
                                                     ELSE get_last_confluence_sync_time(h1),
                                       raised |-> TRUE, outcome |-> {}, errors |-> 0]]]
    /\ lastOp' = "run_batch"
    /\ UNCHANGED <<documents, faissVars, chatVars, utilVars, upstream, now, deletionRun>>

\* batch/detect_deleted.py: detect_and_mark_deleted(db, source) on its own
DetectAndMarkDeleted(source, enum_fails) ==
    LET d == detect_and_mark_deleted(documents, source, upstream, enum_fails) IN
    /\ documents' = d.docs
    /\ deletionRun' = DeletionReport(deletionRun, documents, d.current, d.docs,
                                     d.stats.total_deleted)
    /\ lastOp' = "detect_and_mark_deleted"
    /\ UNCHANGED <<faissVars, chatVars, utilVars, upstream, syncHistory, now, syncRun>>

\* scripts/collect_data.py: DeletionDetector(db).detect_all_deleted()
DetectAllDeleted(enum_fails) ==
    LET d == detect_all_deleted(documents, upstream, enum_fails) IN
    /\ documents' = d.docs
    /\ deletionRun' = DeletionReport(deletionRun, documents, d.current, d.docs,
                                     d.stats.jira + d.stats.confluence)
    /\ lastOp' = "detect_all_deleted"
    /\ UNCHANGED <<faissVars, chatVars, utilVars, upstream, syncHistory, now, syncRun>>

InitSync ==
    /\ documents = {}
    /\ InitFaissVars
    /\ InitChatVars
    /\ InitSyncVars
    /\ InitUtilVars
    /\ lastOp = "init"

NextSync ==
    \/ Tick
    \/ \E e \in UpstreamEdits : UpstreamEdit(e[1], e[2])
    \/ \E e \in UpstreamEdits : UpstreamDelete(e[1])
    \/ \E sync_type \in SyncTypes : \E raises \in SUBSET DocTypes :
       \E bad \in BadItems : \E elapsed \in 0..1 :
          RunSync(sync_type, raises, bad, elapsed)
    \/ \E source \in SyncTypes : \E full_sync \in BOOLEAN :
       \E deletion \in DeletionInputs : \E failures \in BatchFailures :
       \E bad \in BadItems : \E elapsed \in [SourcesOf(source) -> 0..1] :
       \E failing \in {{}} :
          RunBatch(source, full_sync, deletion, failures, bad, elapsed, failing)

(***************************************************************************)
(* Specification of the deletion-detection passes over a synced store      *)
(***************************************************************************)
InitDeletion ==
    /\ documents = SyncedStore
    /\ InitFaissVars
    /\ InitChatVars
    /\ upstream = [d \in DocIds |->
                     UpstreamItem((CHOOSE r \in SyncedStore : r.doc_id = d).content, 0)]
    /\ syncHistory = {}
    /\ now = 0
    /\ syncRun = NoSyncRun
    /\ deletionRun = NoDeletionRun
    /\ InitUtilVars
    /\ lastOp = "init"

NextDeletion ==
    \/ \E doc_id \in DocIds : \E content \in UpstreamContents :
          UpstreamEdit(doc_id, content)
    \/ \E doc_id \in DocIds : UpstreamDelete(doc_id)
    \/ \E source \in SyncTypes : \E enum_fails \in SUBSET DocTypes :
          DetectAndMarkDeleted(source, enum_fails)
    \/ \E enum_fails \in SUBSET DocTypes : DetectAllDeleted(enum_fails)

(***************************************************************************)
(* Specification of sync runs in which the processing of items raises      *)
(***************************************************************************)
\* the sets of fetched items whose processing raises
ItemFailures == {{}, {"jira-A"}, {"jira-B"}, {"jira-A", "confluence-P"}}

NoBatchFailure == [use_retry |-> TRUE, jira |-> 0, confluence |-> 0]

NoDeletionPass == [detect_deletions |-> FALSE, enum_fails |-> {}]

NextItems ==
    \/ UpstreamEdit("jira-B", 2)
    \/ \E sync_type \in SyncTypes : \E raises \in {{}, {"confluence"}} :
       \E bad \in ItemFailures :
          RunSync(sync_type, raises, bad, 0)
    \/ \E source \in SyncTypes : \E bad \in ItemFailures :
          RunBatch(source, FALSE, NoDeletionPass, NoBatchFailure, bad,
                   [S \in SourcesOf(source) |-> 0], {})

(***************************************************************************)
(* Specification of sync runs whose fetches and sync calls may fail        *)
(***************************************************************************)
NextHistory ==
    \/ Tick
    \/ \E sync_type \in SyncTypes : \E raises \in SUBSET DocTypes : \E elapsed \in 0..1 :
          RunSync(sync_type, raises, {}, elapsed)
    \/ \E source \in SyncTypes : \E failures \in BatchFailures :
       \E elapsed \in [SourcesOf(source) -> 0..1] :
          RunBatch(source, FALSE, NoDeletionPass, failures, {}, elapsed, {})
    \/ \E source \in SyncTypes : RunBatchInterrupted(source)

(***************************************************************************)
(* Specification of one source block of run_batch at a time, in two steps, *)
(* with the upstream system changing items at any moment: the record is    *)
(* created and the sync function fetches and writes; later the record is   *)
(* completed                                                               *)
(***************************************************************************)
\* run_batch, the source block up to the return of the sync call; failures:
\* the failing attempts of the wrapped call; changed: the items changed
\* upstream since this fetch
BatchSyncStart(S, failures) ==
    /\ syncRun.kind # "sync_open"
    /\ Cardinality(syncHistory) < MaxSyncRecords
    /\ \E pk \in {NextPk(syncHistory)} :
       \E h1 \in {create_sync_history(syncHistory, S, now)} :
       \E r \in {sync_with_retry(documents, h1, upstream, S, TRUE, failures, {})} :
          /\ documents' = r.docs
          /\ syncHistory' = h1
          /\ syncRun' = [kind |-> "sync_open", sync_type |-> S, full_sync |-> FALSE,
                         parts |-> [T \in {S} |-> SyncPart(pk, r.last_sync, r)],
                         result |-> [raised |-> r.raised, stats |-> r.stats],
                         changed |-> {}]
    /\ lastOp' = "sync_start"
    /\ UNCHANGED <<faissVars, chatVars, utilVars, upstream, now, deletionRun>>

\* run_batch, the end of the source block: update_sync_history
BatchSyncComplete ==
    /\ syncRun.kind = "sync_open"
    /\ syncHistory' = BatchRecord(syncHistory, syncRun.parts[syncRun.sync_type].record_id,
                                  syncRun.result, TRUE, now)
    /\ syncRun' = [syncRun EXCEPT !.kind = "sync_closed"]
    /\ lastOp' = "sync_complete"
    /\ UNCHANGED <<documents, faissVars, chatVars, utilVars, upstream, now, deletionRun>>

\* an item is edited upstream, possibly while a run is under way
ChangeUpstream(doc_id, content) ==
    /\ upstream' = [upstream EXCEPT ![doc_id] = UpstreamItem(content, now)]
    /\ syncRun' = IF syncRun.kind \in {"sync_open", "sync_closed"}
                  THEN [syncRun EXCEPT !.changed = @ \cup {doc_id}]
                  ELSE syncRun
    /\ UNCHANGED <<documents, faissVars, chatVars, utilVars, lastOp, syncHistory, now,
                   deletionRun>>

NextWatermark ==
    \/ Tick
    \/ \E e \in UpstreamEdits : ChangeUpstream(e[1], e[2])
    \/ \E S \in DocTypes : \E failures \in {0, DEFAULT_MAX_RETRIES + 1} :
          BatchSyncStart(S, failures)
    \/ BatchSyncComplete

(***************************************************************************)
(* Specification of full batch runs over upstream items that change        *)
(***************************************************************************)
NextChunks ==
    \/ Tick
    \/ \E e \in UpstreamEdits : UpstreamEdit(e[1], e[2])
    \/ \E source \in SyncTypes : \E elapsed \in [SourcesOf(source) -> 0..1] :
          RunBatch(source, TRUE, NoDeletionPass, NoBatchFailure, {}, elapsed, {})

(***************************************************************************)
(* Specification of one call of a function wrapped by retry_with_backoff   *)
(* or run by retry_with_callback                                           *)
(***************************************************************************)
RetryKinds == {"retry_with_backoff", "retry_with_callback"}

\* the tuples passed as the parameter exceptions
AllowLists == {{"ConnectionError"}, {"ConnectionError", "ValueError"}}

\* initial_delay, max_delay, backoff_factor as passed
DelaySettings == {<<DEFAULT_INITIAL_DELAY, DEFAULT_MAX_DELAY, DEFAULT_BACKOFF_FACTOR>>, <<2, 3, 2>>}

RetryStart(kind, max_retries, explicit, exceptions, delays) ==
    /\ retry.pc = "idle"
    /\ retry' = StartWrapped(kind, max_retries, explicit, exceptions,
                             delays[1], delays[2], delays[3])
    /\ lastOp' = "retry_start"
    /\ UNCHANGED <<documents, faissVars, chatVars, syncVars, searchCall, embedCall, vdb>>

\* run_batch with use_retry calls the wrapped sync function of a source
RetryStartSync(doc_type) ==
    /\ retry.pc = "idle"
    /\ retry' = sync_with_retry_call(doc_type)
    /\ lastOp' = "retry_start"
    /\ UNCHANGED <<documents, faissVars, chatVars, syncVars, searchCall, embedCall, vdb>>

RetryAttemptReturns ==
    /\ retry.pc = "loop"
    /\ retry.kind # "retry_with_callback"
    /\ retry' = AttemptReturns(retry)
    /\ lastOp' = "retry_attempt"
    /\ UNCHANGED <<documents, faissVars, chatVars, syncVars, searchCall, embedCall, vdb>>

\* func returns in retry_with_callback and on_success returns or raises cb
RetryAttemptReturnsCallback(cb) ==
    /\ retry.pc = "loop"
    /\ retry.kind = "retry_with_callback"
    /\ retry' = AttemptReturnsWithCallback(retry, cb)
    /\ lastOp' = "retry_attempt"
    /\ UNCHANGED <<documents, faissVars, chatVars, syncVars, searchCall, embedCall, vdb>>

RetryAttemptRaises(e) ==
    /\ retry.pc = "loop"
    /\ retry' = AttemptRaises(retry, e)
    /\ lastOp' = "retry_attempt"
    /\ UNCHANGED <<documents, faissVars, chatVars, syncVars, searchCall, embedCall, vdb>>

InitRetry ==
    /\ documents = {}
    /\ InitFaissVars
    /\ InitChatVars
    /\ InitSyncVars
    /\ InitUtilVars
    /\ lastOp = "init"

NextRetry ==
    \/ \E kind \in RetryKinds : \E max_retries \in 0..MaxRetries :
       \E delays \in DelaySettings :
          \/ RetryStart(kind, max_retries, FALSE, DEFAULT_EXCEPTIONS, delays)
          \/ \E exceptions \in AllowLists :
                RetryStart(kind, max_retries, TRUE, exceptions, delays)
    \/ \E doc_type \in DocTypes : RetryStartSync(doc_type)
    \/ RetryAttemptReturns
    \/ \E cb \in {"ok", "ValueError"} : RetryAttemptReturnsCallback(cb)
    \/ \E e \in ExceptionTypes : RetryAttemptRaises(e)

(***************************************************************************)
(* Specification of one loop driven by a RetryContext                      *)
(***************************************************************************)
ContextStart(max_retries, delays) ==
    /\ retry.pc = "idle"
    /\ retry' = RetryContext(max_retries, delays[1], delays[2], delays[3])
    /\ lastOp' = "retry_context"
    /\ UNCHANGED <<documents, faissVars, chatVars, syncVars, searchCall, embedCall, vdb>>

ContextShouldRetry ==
    /\ retry.pc = "should_retry"
    /\ retry' = should_retry(retry)
    /\ lastOp' = "should_retry"
    /\ UNCHANGED <<documents, faissVars, chatVars, syncVars, searchCall, embedCall, vdb>>

ContextLoopBody(e) ==
    /\ retry.pc = "work"
    /\ retry' = LoopBody(retry, e)
    /\ lastOp' = "loop_body"
    /\ UNCHANGED <<documents, faissVars, chatVars, syncVars, searchCall, embedCall, vdb>>

NextContext ==
    \/ \E max_retries \in 0..MaxRetries : \E delays \in DelaySettings :
          ContextStart(max_retries, delays)
    \/ ContextShouldRetry
    \/ \E e \in ExceptionTypes \cup {"ok"} : ContextLoopBody(e)

(***************************************************************************)
(* Specification of one call of EmbeddingService.get_embedding or          *)
(* get_embeddings_batch                                                    *)
(***************************************************************************)
MaxTexts == 4

EmbedTexts == {<<>>, <<" ">>, <<"a">>, <<"b", " ">>}

TextLists == UNION {[1..n -> EmbedTexts] : n \in 0..MaxTexts}

BatchSizes == {None, 1, 2, 3}

GetEmbedding(text, fail) ==
    /\ \E r \in {get_embedding(text, fail)} :
          embedCall' = [op |-> "get_embedding", texts |-> <<text>>, batch_size |-> None,
                        fails |-> IF fail THEN {1} ELSE {},
                        provider_inputs |-> r.provider_inputs,
                        raised |-> r.raised, embeddings |-> r.embeddings]
    /\ lastOp' = "get_embedding"
    /\ UNCHANGED <<documents, faissVars, chatVars, syncVars, retry, searchCall, vdb>>

GetEmbeddingsBatch(texts, batch_size_, fails) ==
    /\ \E r \in {get_embeddings_batch(texts, batch_size_, fails)} :
          embedCall' = [op |-> "get_embeddings_batch", texts |-> texts,
                        batch_size |-> batch_size_, fails |-> fails,
                        provider_inputs |-> r.provider_inputs,
                        raised |-> r.raised, embeddings |-> r.embeddings]
    /\ lastOp' = "get_embeddings_batch"
    /\ UNCHANGED <<documents, faissVars, chatVars, syncVars, retry, searchCall, vdb>>

\* one call per behaviour
NextEmbed ==
    \/ /\ embedCall.op = "none"
       /\ \E text \in EmbedTexts : \E fail \in BOOLEAN : GetEmbedding(text, fail)
    \/ /\ embedCall.op = "none"
       /\ \E texts \in TextLists : \E batch_size_ \in BatchSizes :
          \E fails \in SUBSET (1..Len(texts)) :
             GetEmbeddingsBatch(texts, batch_size_, fails)

(***************************************************************************)
(* Specification of a VectorDBService whose index is built, saved to a     *)
(* path and loaded from it by a fresh service                              *)
(***************************************************************************)
MaxVectors == 3

VectorLists == {<<1>>, <<2>>, <<1, 2>>}

\* the metadata argument of add_vectors: None, one record per vector, or a
\* list one short
MetadataFor(vectors, kind) ==
    LET full == [i \in 1..Len(vectors) |-> MetaRecord(vectors[i], "jira-A")] IN
    IF kind = "none" THEN <<>>
    ELSE IF kind = "short" THEN SubSeq(full, 1, Len(full) - 1)
    ELSE full

VdbUnchanged == UNCHANGED <<documents, chunks, faissStats, faissAdded, chatVars, syncVars, retry, searchCall, embedCall>>

CreateIndex ==
    /\ vdb' = [vdb EXCEPT !.svc = create_index(vdb.svc), !.raised = FALSE]
    /\ lastOp' = "create_index"
    /\ UNCHANGED <<faissFile, metaFile>>
    /\ VdbUnchanged

AddVectors(vectors, kind) ==
    /\ ntotal(vdb.svc) + Len(vectors) <= MaxVectors
    /\ \E r \in {add_vectors(vdb.svc, vectors, MetadataFor(vectors, kind))} :
          vdb' = [vdb EXCEPT !.svc = r.svc, !.raised = r.raised]
    /\ lastOp' = "add_vectors"
    /\ UNCHANGED <<faissFile, metaFile>>
    /\ VdbUnchanged

RemoveVectors(index_ids) ==
    /\ \E r \in {remove_vectors(vdb.svc, index_ids)} :
          vdb' = [vdb EXCEPT !.svc = r.svc, !.raised = r.raised]
    /\ lastOp' = "remove_vectors"
    /\ UNCHANGED <<faissFile, metaFile>>
    /\ VdbUnchanged

\* save_index raises ValueError and writes nothing when there is no index
SaveIndex ==
    /\ IF ~vdb.svc.initialized
       THEN /\ vdb' = [vdb EXCEPT !.raised = TRUE]
            /\ UNCHANGED <<faissFile, metaFile>>
       ELSE /\ faissFile' = save_index(vdb.svc).faiss
            /\ metaFile' = save_index(vdb.svc).meta
            /\ vdb' = [vdb EXCEPT !.raised = FALSE, !.saved = vdb.svc, !.intact = TRUE]
    /\ lastOp' = "save_index"
    /\ VdbUnchanged

\* a fresh VectorDBService loads the path; FileNotFoundError when the vector
\* file is absent
LoadIndex ==
    /\ IF ~faissFile.exists
       THEN vdb' = [vdb EXCEPT !.loaded = VectorDBService, !.load_raised = TRUE]
       ELSE vdb' = [vdb EXCEPT !.loaded = load_index(VectorDBService, faissFile, metaFile),
                               !.load_raised = FALSE]
    /\ lastOp' = "load_index"
    /\ UNCHANGED <<faissFile, metaFile>>
    /\ VdbUnchanged

\* the metadata file is lost, or replaced by an older one that is one record short
CorruptMetadataFile(kind) ==
    /\ faissFile.exists
    /\ metaFile.exists
    /\ IF kind = "missing" THEN metaFile' = NoFile
       ELSE /\ metaFile.data # <<>>
            /\ metaFile' = [metaFile EXCEPT !.data = SubSeq(@, 1, Len(@) - 1)]
    /\ vdb' = [vdb EXCEPT !.intact = FALSE]
    /\ lastOp' = "corrupt"
    /\ UNCHANGED faissFile
    /\ VdbUnchanged

\* one round trip per behaviour: the index is built, saved once, the metadata
\* file may be damaged, and a fresh service loads the path once
Building == ~faissFile.exists /\ lastOp # "load_index"

NextIndex ==
    \/ Building /\ CreateIndex
    \/ /\ Building
       /\ \E vectors \in VectorLists : \E kind \in {"none", "full", "short"} :
             AddVectors(vectors, kind)
    \/ /\ Building
       /\ \E index_ids \in SUBSET (0..(MaxVectors - 1)) : RemoveVectors(index_ids)
    \/ Building /\ SaveIndex
    \/ lastOp # "load_index" /\ LoadIndex
    \/ /\ lastOp # "load_index"
       /\ \E kind \in {"missing", "stale"} : CorruptMetadataFile(kind)

(***************************************************************************)
(* Specification of a batch job's save_index running beside the load_index *)
(* of a request's RAGService, file access by file access.  vdb.svc is the  *)
(* batch job's index, vdb.loaded the service under construction, and       *)
(* vdb.versions the indexes that were ever saved to the path.              *)
(***************************************************************************)
InitInterleave ==
    /\ documents = {}
    /\ chunks = {}
    /\ faissStats = NoStats
    /\ faissAdded = {}
    /\ InitChatVars
    /\ InitSyncVars
    /\ retry = NoRetry
    /\ searchCall = NoSearchCall
    /\ embedCall = NoEmbedCall
    /\ \E vectors \in VectorLists :
       \E v0 \in {add_vectors(VectorDBService, vectors, MetadataFor(vectors, "full")).svc} :
          /\ faissFile = save_index(v0).faiss
          /\ metaFile = save_index(v0).meta
          /\ vdb = [svc |-> v0, raised |-> FALSE, saved |-> v0, intact |-> TRUE,
                    loaded |-> VectorDBService, load_raised |-> FALSE,
                    save_pc |-> "idle", load_pc |-> "idle", versions |-> {v0}]
    /\ lastOp = "init"

\* save_index, lines 256-258: faiss.write_index
SaveWriteIndex ==
    /\ vdb.save_pc = "idle"
    /\ vdb.svc # vdb.saved
    /\ faissFile' = save_index(vdb.svc).faiss
    /\ vdb' = [vdb EXCEPT !.save_pc = "index_written", !.versions = @ \cup {vdb.svc}]
    /\ lastOp' = "write_index"
    /\ UNCHANGED metaFile
    /\ VdbUnchanged

\* save_index, lines 260-264: pickle.dump of the metadata
SaveWriteMetadata ==
    /\ vdb.save_pc = "index_written"
    /\ metaFile' = save_index(vdb.svc).meta
    /\ vdb' = [vdb EXCEPT !.save_pc = "done", !.saved = vdb.svc]
    /\ lastOp' = "write_metadata"
    /\ UNCHANGED faissFile
    /\ VdbUnchanged

LoadReadIndex ==
    /\ vdb.load_pc = "idle"
    /\ faissFile.exists
    /\ vdb' = [vdb EXCEPT !.loaded = read_index(VectorDBService, faissFile),
                          !.load_pc = "index_read"]
    /\ lastOp' = "read_index"
    /\ UNCHANGED <<faissFile, metaFile>>
    /\ VdbUnchanged

LoadReadMetadata ==
    /\ vdb.load_pc = "index_read"
    /\ vdb' = [vdb EXCEPT !.loaded = read_metadata(vdb.loaded, metaFile),
                          !.load_pc = "done"]
    /\ lastOp' = "read_metadata"
    /\ UNCHANGED <<faissFile, metaFile>>
    /\ VdbUnchanged

\* the batch job changes its index, then saves it once; one request loads
NextInterleave ==
    \/ /\ vdb.save_pc = "idle"
       /\ \E vectors \in VectorLists : AddVectors(vectors, "full")
    \/ /\ vdb.save_pc = "idle"
       /\ \E index_ids \in SUBSET (0..(MaxVectors - 1)) : RemoveVectors(index_ids)
    \/ SaveWriteIndex
    \/ SaveWriteMetadata
    \/ LoadReadIndex
    \/ LoadReadMetadata

(***************************************************************************)
(* Specification of RAGService.search_documents called on its own          *)
(***************************************************************************)
MaxTopK == 3

SearchQueries == {<<" ">>, <<"h", "i">>}

\* score_threshold: None (written 0) or the threshold rag_searcher passes
ScoreThresholds == {0, SCORE_THRESHOLD}

\* a call on the store and index files the behaviour starts with
SearchDocuments(query, top_k, score_threshold, doc_type, include_deleted, date_from, date_to, fault, dist) ==
    /\ \E svc \in {RAGServiceIndex(faissFile, metaFile)} :
       \E r \in {search_documents(svc, documents, chunks, query, top_k, score_threshold,
                                  doc_type, include_deleted, date_from, date_to,
                                  fault, dist)} :
          searchCall' = [called |-> TRUE, query |-> query, top_k |-> top_k,
                         hits |-> Len(search_with_scores(svc, dist, top_k * 3,
                                                         score_threshold)),
                         doc_type |-> doc_type, include_deleted |-> include_deleted,
                         date_from |-> date_from, date_to |-> date_to,
                         init_raised |-> FALSE,
                         raised |-> r.raised, results |-> r.results]
    /\ lastOp' = "search_documents"
    /\ UNCHANGED <<documents, faissVars, chatVars, syncVars, retry, embedCall, vdb>>

\* distances of the query to a stored vector: near, at the threshold, far
SearchDistances == {11, 185, 400}

\* date_from, date_to: None or a date
DateBounds == {None, 2}

\* the dimension of an index built with another embedding model
\* (text-embedding-3-small, text-embedding-ada-002)
OTHER_DIMENSION == DEFAULT_DIMENSION \div 2

\* the index files of the query pipeline, and two written by a vector service
\* of another dimension: one with vectors, one empty
SearchIndexFiles ==
    ChatIndexFiles
    \cup {save_index([BuiltIndex EXCEPT !.dimension = OTHER_DIMENSION]),
          save_index(create_index([VectorDBService EXCEPT !.dimension = OTHER_DIMENSION]))}

InitSearch ==
    /\ documents \in {Dated(SyncedStore), Dated(ChatStore)}
    /\ chunks = ChatChunks
    /\ \E f \in SearchIndexFiles : faissFile = f.faiss /\ metaFile = f.meta
    /\ faissStats = NoStats
    /\ faissAdded = {}
    /\ InitChatVars
    /\ InitSyncVars
    /\ InitUtilVars
    /\ lastOp = "init"

\* one call per behaviour
NextSearch ==
    /\ ~searchCall.called
    /\ \E query \in SearchQueries : \E top_k \in 1..MaxTopK :
       \E score_threshold \in ScoreThresholds : \E doc_type \in {"", "jira"} :
       \E include_deleted \in BOOLEAN : \E date_from \in DateBounds :
       \E date_to \in DateBounds : \E fault \in {"none", "embed_call", "db"} :
       \E dist \in [0..2 -> SearchDistances] :
           SearchDocuments(query, top_k, score_threshold, doc_type, include_deleted,
                           date_from, date_to, fault, dist)

vars == <<documents, faissVars, lastOp, chatVars, syncVars, utilVars>>

SpecFaiss == InitFaiss /\ [][NextFaiss]_vars

SpecChat == InitChat /\ [][NextChat]_vars

SpecSync == InitSync /\ [][NextSync]_vars

SpecDeletion == InitDeletion /\ [][NextDeletion]_vars

SpecItems == InitSync /\ [][NextItems]_vars

SpecHistory == InitSync /\ [][NextHistory]_vars

SpecWatermark == InitSync /\ [][NextWatermark]_vars

SpecChunks == InitSync /\ [][NextChunks]_vars

SpecRetry == InitRetry /\ [][NextRetry]_vars

SpecSearch == InitSearch /\ [][NextSearch]_vars

SpecRebuild == InitFaiss /\ [][NextRebuild]_vars

SpecContext == InitRetry /\ [][NextContext]_vars

SpecInterleave == InitInterleave /\ [][NextInterleave]_vars

SpecEmbed == InitRetry /\ [][NextEmbed]_vars

SpecIndex == InitRetry /\ [][NextIndex]_vars

(***************************************************************************)
(* Index lifecycle: properties                                             *)
(***************************************************************************)
LiveChunks == {c \in chunks : ~ChunkDocument(c).deleted}

\* the vector stored at ordinal n of the saved vector file
SavedVector(n) == faissFile.data[n + 1]

SavedCount == Len(faissFile.data)

\* C1: after a run of update_faiss_index that found a soft-deleted document's
\* chunk still holding an ordinal (and in which no batch failed), the saved
\* index holds exactly one vector per chunk of a non-deleted document, none of
\* a soft-deleted document, and every such chunk's faiss_index_id is the
\* ordinal of its own vector.
C1_RebuildCoversAllLiveChunks ==
    (lastOp = "update_faiss_index" /\ faissStats.vectors_removed > 0
        /\ faissStats.errors = 0)
    => /\ faissFile.exists
       /\ SavedCount = Cardinality(LiveChunks)
       /\ \A c \in LiveChunks :
             /\ c.faiss_index_id \in 0..(SavedCount - 1)
             /\ SavedVector(c.faiss_index_id) = c.id
       /\ \A n \in 0..(SavedCount - 1) :
             \E c \in LiveChunks : SavedVector(n) = c.id

\* C2: after update_faiss_index added chunk vectors and saved, the saved
\* metadata list has one record per vector, the record at each new ordinal
\* references the chunk added there, and a search hit on that ordinal resolves
\* to the chunk's document.
C2_MetadataPairedWithVectors ==
    (lastOp = "update_faiss_index" /\ faissAdded # {})
    => /\ Len(metaFile.data) = Len(faissFile.data)
       /\ \A p \in faissAdded :
            /\ search_metadata(RAGServiceIndex(faissFile, metaFile), p[2]).chunk_id = p[1]
            /\ ResolveHit(documents, chunks, RAGServiceIndex(faissFile, metaFile),
                          p[2], "", FALSE).doc_id
                 = ChunkDocument(ChunkById(chunks, p[1])).doc_id

(***************************************************************************)
(* Query pipeline: properties                                              *)
(***************************************************************************)
HasRun(node) == \E i \in 1..Len(stagesRun) : stagesRun[i] = node

TopScoreBelowFloor ==
    /\ chatState.search_results # <<>>
    /\ chatState.search_results[1].similarity_score < SIMILARITY_THRESHOLD

\* C3: once relevance_checker has run on non-empty search results whose top
\* similarity score is below 0.35, the decision is irrelevant and the node
\* never reached the semantic-check LLM, whatever the LLM would have done.
C3_BelowFloorIsIrrelevant ==
    (HasRun("relevance_checker") /\ TopScoreBelowFloor)
    => /\ chatState.relevance_decision = "irrelevant"
       /\ "relevance_checker" \notin llmUsed

C3_Witness ==
    /\ lastOp = "relevance_checker"
    /\ TopScoreBelowFloor
    /\ lastInput.text = STR_relevant
    /\ lastInput.fault = "none"

\* C4: when the score floor has passed and the semantic-check LLM answers
\* "irrelevant", the decision is irrelevant and the next node is llm_fallback.
C4_LLMIrrelevantRoutesToFallback ==
    (lastOp = "relevance_checker" /\ "relevance_checker" \in llmUsed
        /\ lastInput.fault = "none" /\ lastInput.text = STR_irrelevant)
    => /\ chatState.relevance_decision = "irrelevant"
       /\ pc = "llm_fallback"

WellFormed(r) ==
    /\ r.returned
    /\ r.response # <<>>
    /\ r.response_type \in {"rag", "llm_fallback", "error"}

IsPrefix(s1, s2) == Len(s1) <= Len(s2) /\ \A i \in 1..Len(s1) : s1[i] = s2[i]

PipelineRuns ==
    {<<"query_analyzer", "rag_searcher", "relevance_checker", responder,
       "response_formatter">> : responder \in {"rag_responder", "llm_fallback"}}

\* C6: the nodes that have run are always a prefix of query_analyzer,
\* rag_searcher, relevance_checker, one responder, response_formatter; when
\* the graph has ended the whole sequence has run, and nothing runs after
\* response_formatter.
C6_FixedStageOrder ==
    /\ \E run \in PipelineRuns : IsPrefix(stagesRun, run)
    /\ (pc = "END" \/ (pc = "done" /\ lastOp = "return")) => stagesRun \in PipelineRuns
    /\ HasRun("response_formatter") => pc \in {"END", "done"}

C6_Witness ==
    /\ pc = "done"
    /\ lastOp = "return"
    /\ stagesRun[4] = "rag_responder"

(***************************************************************************)
(* Synchronisation engine: properties                                      *)
(***************************************************************************)
\* C7: no two Documents share a doc_id, and an item that a sync run fetched
\* while the store held a live row of it with the same content is counted as
\* skipped by that run, not as updated or added.
C7_UnchangedItemIsSkipped ==
    /\ \A doc_id \in DocIds : Cardinality({d \in documents : d.doc_id = doc_id}) <= 1
    /\ \A S \in DOMAIN syncRun.parts : \A p \in syncRun.parts[S].outcome :
          p[3] => p[2] = "skipped"

\* C8: a deletion-detection pass that follows a pass with the same upstream
\* enumeration, with no change of the documents table in between, marks no
\* document and reports a deleted count of 0.
C8_SecondPassMarksNothing ==
    deletionRun.repeat => (deletionRun.count = 0 /\ ~deletionRun.changed)

C8_Witness ==
    /\ lastOp = "detect_and_mark_deleted"
    /\ deletionRun.repeat
    /\ deletionRun.previous_count > 0
    /\ \E d \in documents : d.deleted

\* a record of sync type "all" covers both sources
Covers(sync_type, S) == sync_type = S \/ sync_type = "all"

\* the completion time of the most recent run before record pk that covered
\* source S and ended with status success; None when there is no such run
Watermark(history, pk, S) ==
    LET successes == {r \in history : r.id < pk /\ Covers(r.sync_type, S)
                                        /\ r.status = "success"}
    IN  IF successes = {} THEN None ELSE SetMax({r.completed_at : r \in successes})

\* C9: the lower time bound a run used when it fetched source S is the
\* completion time of the most recent earlier run that covered S and ended
\* with status success, and there is no bound only when no such run exists;
\* failed runs do not count.  For runs of sync type jira, confluence and all.
C9_WatermarkIsLastSuccess ==
    \A S \in DOMAIN syncRun.parts :
        syncRun.parts[S].last_sync
            = Watermark(syncHistory, syncRun.parts[S].record_id, S)

\* the SyncHistory record of a run
RecordOf(pk) == CHOOSE r \in syncHistory : r.id = pk

\* C10: when the fetch of a source raised in a run, the run's record has
\* status failed and an error_message, counts no added or updated document,
\* and the run added or updated no document.
C10_FailedFetchChangesNothing ==
    \A S \in DOMAIN syncRun.parts :
        syncRun.parts[S].raised =>
            /\ RecordOf(syncRun.parts[S].record_id).status = "failed"
            /\ RecordOf(syncRun.parts[S].record_id).error_message # "None"
            /\ RecordOf(syncRun.parts[S].record_id).documents_added = 0
            /\ RecordOf(syncRun.parts[S].record_id).documents_updated = 0
            /\ \A T \in DOMAIN syncRun.parts :
                  syncRun.parts[T].record_id = syncRun.parts[S].record_id
                  => \A p \in syncRun.parts[T].outcome : p[2] \notin {"added", "updated"}

\* the items a run fetched from source S with lower time bound last_sync
Fetched(S, up, last_sync) ==
    IF S = "jira" THEN get_issues_updated_since(up, last_sync)
    ELSE get_pages_updated_since(up, last_sync)

\* C11: in every sync run, for a source whose fetch succeeded and in which
\* the processing of some item raised: every fetched item was processed, the
\* errors count is the number of items that raised, every item counted as
\* added or updated is in the store with the content upstream holds, and the
\* run's record ends with status success unless the fetch of another source
\* of the same run raised.
C11_ItemErrorDoesNotStopRun ==
    [][syncHistory' # syncHistory =>
        \A S \in DOMAIN syncRun'.parts :
            (~syncRun'.parts[S].raised
             /\ \E p \in syncRun'.parts[S].outcome : p[2] = "errors")
            => /\ {p[1] : p \in syncRun'.parts[S].outcome}
                     = Fetched(S, upstream, syncRun'.parts[S].last_sync)
               /\ syncRun'.parts[S].errors
                     = Cardinality({p \in syncRun'.parts[S].outcome : p[2] = "errors"})
               /\ \A p \in syncRun'.parts[S].outcome :
                     p[2] \in {"added", "updated"}
                     => \E d \in documents' : /\ d.doc_id = p[1]
                                              /\ d.content = upstream[p[1]].content
               /\ (\A T \in DOMAIN syncRun'.parts :
                      syncRun'.parts[T].record_id = syncRun'.parts[S].record_id
                      => ~syncRun'.parts[T].raised)
                  => \E r \in syncHistory' : /\ r.id = syncRun'.parts[S].record_id
                                             /\ r.status = "success"]_vars

C11_Witness ==
    /\ lastOp = "run_batch"
    /\ syncRun.kind = "run_batch"
    /\ "jira" \in DOMAIN syncRun.parts
    /\ syncRun.parts["jira"].errors = 1
    /\ <<"jira-A", "errors", FALSE>> \in syncRun.parts["jira"].outcome
    /\ <<"jira-B", "added", FALSE>> \in syncRun.parts["jira"].outcome
    /\ \E d \in documents : d.doc_id = "jira-B"
    /\ \A d \in documents : d.doc_id # "jira-A"
    /\ RecordOf(syncRun.parts["jira"].record_id).status = "success"

(***************************************************************************)
(* Retry handler: properties                                               *)
(***************************************************************************)
\* the calls of func made so far that raised, by position
RaisingCalls == {i \in 1..Len(retry.calls) : retry.calls[i] # "ok"}

\* every call made so far raised an exception the tuple catches
AllCallsCaught ==
    \A i \in 1..Len(retry.calls) :
        retry.calls[i] # "ok" /\ Catches(retry.exceptions, retry.calls[i])

\* C12: for retry_with_backoff(max_retries = n): while every call raises an
\* allow-listed exception the function is invoked at most n + 1 times, the
\* wrapper goes on until the call n + 1 and then raises RetryError whose
\* last_exception is the exception of that final call; and once a call
\* returns, its value is returned and no further call is made.
C12_RetriesThenRetryError ==
    retry.kind = "retry_with_backoff" =>
        /\ AllCallsCaught
           => /\ Len(retry.calls) <= retry.max_retries + 1
              /\ (Len(retry.calls) <= retry.max_retries) = (retry.pc = "loop")
              /\ Len(retry.calls) = retry.max_retries + 1
                 => /\ retry.pc = "raised"
                    /\ retry.outcome.kind = "RetryError"
                    /\ retry.outcome.last_exception = retry.calls[Len(retry.calls)]
        /\ retry.outcome.kind = "RetryError"
           => AllCallsCaught /\ Len(retry.calls) = retry.max_retries + 1
        /\ \A i \in 1..Len(retry.calls) :
              retry.calls[i] = "ok"
              => /\ i = Len(retry.calls)
                 /\ retry.pc = "returned"
                 /\ retry.outcome.kind = "value"

C12_Witness ==
    /\ retry.kind = "retry_with_backoff"
    /\ retry.max_retries = 2
    /\ retry.calls = <<"ConnectionError", "ConnectionError", "ValueError">>
    /\ retry.pc = "raised"
    /\ retry.outcome.kind = "RetryError"
    /\ retry.outcome.last_exception = "ValueError"

\* C13: when the caller passed no parameter exceptions, no exception is
\* retried: a call of func that raises is the last call, and what it raised
\* leaves retry_with_backoff or retry_with_callback as it is.
C13_DefaultRetriesNothing ==
    (retry.kind \in {"retry_with_backoff", "retry_with_callback"} /\ ~retry.explicit)
    => \A i \in RaisingCalls :
          /\ i = Len(retry.calls)
          /\ retry.pc = "raised"
          /\ retry.outcome.kind = "exception"
          /\ retry.outcome.exc = retry.calls[i]
          /\ retry.sleeps = <<>>

\* C14: when the caller passed the parameter exceptions to retry_with_backoff,
\* a call of func that raises an exception of a type outside the tuple is the
\* last call, the exception leaves the wrapper as it is (no RetryError), and
\* no sleep and no on_retry call follows it; when it was the first call, func
\* was invoked exactly once and there was no sleep and no on_retry call at all.
C14_UnlistedExceptionPropagates ==
    (retry.kind = "retry_with_backoff" /\ retry.explicit)
    => \A i \in RaisingCalls :
          ~Catches(retry.exceptions, retry.calls[i])
          => /\ i = Len(retry.calls)
             /\ retry.pc = "raised"
             /\ retry.outcome.kind = "exception"
             /\ retry.outcome.exc = retry.calls[i]
             /\ Len(retry.sleeps) = i - 1
             /\ Len(retry.on_retry) = i - 1

C14_Witness ==
    /\ retry.kind = "retry_with_backoff"
    /\ retry.explicit
    /\ retry.exceptions = {"ConnectionError"}
    /\ retry.max_retries = 2
    /\ retry.calls = <<"ValueError">>
    /\ retry.pc = "raised"
    /\ retry.outcome.exc = "ValueError"
    /\ retry.sleeps = <<>>
    /\ retry.on_retry = <<>>

(***************************************************************************)
(* Query pipeline against an empty or absent index: properties             *)
(***************************************************************************)
\* the index file is absent, or holds no vector
EmptyIndex == ~faissFile.exists \/ faissFile.data = <<>>

\* C15: for every query run against an empty or absent vector index: once
\* rag_searcher has run search_results is the empty list, relevance_checker
\* sets relevance_decision to irrelevant without invoking the semantic-check
\* LLM, rag_responder never runs and llm_fallback is the responder, and the
\* result run_workflow returns from the final state has response_type
\* llm_fallback.
C15_EmptyIndexFallsBack ==
    EmptyIndex =>
        /\ HasRun("rag_searcher") => chatState.search_results = <<>>
        /\ HasRun("relevance_checker")
           => /\ chatState.relevance_decision = "irrelevant"
              /\ "relevance_checker" \notin llmUsed
              /\ pc \in {"llm_fallback", "done"} \/ HasRun("llm_fallback")
        /\ ~HasRun("rag_responder")
        /\ (pc = "done" /\ lastOp = "return")
           => /\ HasRun("llm_fallback")
              /\ result.response_type = "llm_fallback"
              /\ result.relevance_decision = "irrelevant"

C15_Witness ==
    /\ ~faissFile.exists
    /\ pc = "done"
    /\ lastOp = "return"
    /\ ~IsBlank(chatState.user_query)
    /\ stagesRun[4] = "llm_fallback"
    /\ result.response_type = "llm_fallback"
    /\ chatState.search_results = <<>>

\* C16: for every query run against an empty vector index, the response text
\* run_workflow returns from the final state ends with the disclaimer that the
\* answer is not based on company documents.
C16_EmptyIndexResponseHasDisclaimer ==
    (EmptyIndex /\ pc = "done" /\ lastOp = "return")
    => /\ Len(result.response) >= Len(DISCLAIMER)
       /\ SubSeq(result.response, Len(result.response) - Len(DISCLAIMER) + 1,
                 Len(result.response)) = DISCLAIMER

(***************************************************************************)
(* Query pipeline under failures of the stages' external calls: properties *)
(***************************************************************************)
Responders == {"rag_responder", "llm_fallback"}

\* C17: whenever the external call of a stage (query_analyzer, rag_searcher,
\* relevance_checker, rag_responder, llm_fallback) has failed, the state the
\* stage returns has error set, and holds what the next stage reads:
\* analyzed_query after query_analyzer, relevance_decision after
\* relevance_checker, a non-empty response with its response_type after a
\* responder (search_results and sources are lists in every state).
C17_FailedStageSetsErrorAndFields ==
    (lastOp \in Nodes \ {"response_formatter"} /\ lastInput.failed)
    => /\ chatState.error # "None"
       /\ lastOp = "query_analyzer" => ~chatState.analyzed_query.is_none
       /\ lastOp = "relevance_checker"
          => chatState.relevance_decision \in {"relevant", "irrelevant"}
       /\ lastOp \in Responders
          => /\ chatState.response # <<>>
             /\ chatState.response_type \in {"rag", "llm_fallback"}
\* C18: relevance_checker always returns with relevance_decision set to
\* relevant or irrelevant, and when the score floor has passed and the
\* semantic-check LLM cannot be constructed or its call fails, the decision
\* is relevant.
C18_RelevanceDecisionAlwaysSet ==
    /\ HasRun("relevance_checker")
       => chatState.relevance_decision \in {"relevant", "irrelevant"}
    /\ (lastOp = "relevance_checker" /\ lastInput.failed)
       => /\ chatState.relevance_decision = "relevant"
          /\ pc = "rag_responder"

C18_Witness ==
    /\ lastOp = "relevance_checker"
    /\ lastInput.failed
    /\ lastInput.fault = "call"
    /\ ~TopScoreBelowFloor
    /\ chatState.search_results # <<>>
    /\ chatState.relevance_decision = "relevant"
\* the values relevance_decision is tried with; "missing" stands for a state
\* without the key
DecisionValues == {"relevant", "irrelevant", "None", "missing", "Relevant", "maybe"}

\* C19: should_use_rag returns rag_responder exactly when relevance_decision
\* is relevant and llm_fallback for every other value, whatever the rest of
\* the state; and in every pipeline run the responder that executes follows
\* relevance_checker directly and is the one should_use_rag names for the
\* decision relevance_checker wrote.
C19_RoutingFollowsDecision ==
    /\ \A d \in DecisionValues :
          should_use_rag([chatState EXCEPT !.relevance_decision = d])
             = IF d = "relevant" THEN "rag_responder" ELSE "llm_fallback"
    /\ lastOp = "relevance_checker" => pc = should_use_rag(chatState)
    /\ \A i \in 1..Len(stagesRun) :
          stagesRun[i] \in Responders
          => /\ i > 1 /\ stagesRun[i - 1] = "relevance_checker"
             /\ stagesRun[i] = should_use_rag(chatState)
             /\ (stagesRun[i] = "rag_responder") = (chatState.relevance_decision = "relevant")

C19_Witness ==
    /\ lastOp = "rag_responder"
    /\ chatState.relevance_decision = "relevant"
    /\ stagesRun[Len(stagesRun)] = "rag_responder"
    /\ stagesRun[Len(stagesRun) - 1] = "relevance_checker"

(***************************************************************************)
(* RAGService.search_documents: properties                                 *)
(***************************************************************************)
\* C20: for every top_k >= 1 and any index and store contents,
\* search_documents returns at most top_k results, in non-increasing
\* similarity_score order.
C20_AtMostTopKSortedByScore ==
    searchCall.called =>
        /\ Len(searchCall.results) <= searchCall.top_k
        /\ \A i \in 1..Len(searchCall.results) : \A j \in i..Len(searchCall.results) :
              searchCall.results[i].similarity_score
                 >= searchCall.results[j].similarity_score

C20_Witness ==
    /\ searchCall.called
    /\ ~IsBlank(searchCall.query)
    /\ searchCall.top_k = 2
    /\ searchCall.hits = 3
    /\ documents = Dated(SyncedStore)
    /\ Len(searchCall.results) = 2
    /\ searchCall.results[1].similarity_score > searchCall.results[2].similarity_score

\* C21: every result returned by search_documents belongs to a document of
\* the store that passes every active filter: not soft-deleted unless
\* include_deleted, of the doc_type asked for when one is given, and with
\* updated_at within [date_from, date_to] where a bound is given.
PassesFilters(d, call) ==
    /\ (call.include_deleted \/ ~d.deleted)
    /\ (call.doc_type # "" => d.doc_type = call.doc_type)
    /\ (call.date_from # None => d.updated_at >= call.date_from)
    /\ (call.date_to # None => d.updated_at <= call.date_to)

C21_ResultsPassEveryFilter ==
    searchCall.called =>
        \A i \in 1..Len(searchCall.results) :
           \E d \in documents :
              /\ d.doc_id = searchCall.results[i].doc_id
              /\ \E c \in chunks : c.id = searchCall.results[i].chunk_id
                                    /\ c.document_id = d.id
              /\ PassesFilters(d, searchCall)

\* a call with every filter active that returns one hit and drops the others:
\* jira-B is soft-deleted, confluence-P has the wrong type and is too recent
C21_Witness ==
    /\ searchCall.called
    /\ documents = Dated(ChatStore)
    /\ searchCall.hits = 3
    /\ ~searchCall.include_deleted
    /\ searchCall.doc_type = "jira"
    /\ searchCall.date_to = 2
    /\ Len(searchCall.results) = 1
    /\ searchCall.results[1].doc_id = "jira-A"

(***************************************************************************)
(* EmbeddingService: properties                                            *)
(***************************************************************************)
\* the size of the sub-batches of a call
SizeOf(call) == IF call.batch_size = None THEN DEFAULT_BATCH_SIZE ELSE call.batch_size

\* the number of the sub-batch that text i of a call falls in
BatchOf(call, i) == ((i - 1) \div SizeOf(call)) + 1

\* C22: for every list of texts and every pattern of provider failures across
\* sub-batches, get_embeddings_batch returns exactly len(texts) vectors in
\* input order, each of the configured dimension: the texts of a failed
\* sub-batch get zero vectors, the others the vector the provider returned for
\* them.
C22_BatchReturnsOneVectorPerText ==
    embedCall.op = "get_embeddings_batch" =>
        /\ ~embedCall.raised
        /\ Len(embedCall.embeddings) = Len(embedCall.texts)
        /\ \A i \in 1..Len(embedCall.texts) :
              /\ embedCall.embeddings[i].dimension = EMBEDDING_DIMENSION
              /\ IF BatchOf(embedCall, i) \in embedCall.fails
                 THEN embedCall.embeddings[i] = ZeroVector
                 ELSE embedCall.embeddings[i] =
                        ProviderEmbedding(
                          embedCall.provider_inputs[BatchOf(embedCall, i)]
                                                   [i - (BatchOf(embedCall, i) - 1) * SizeOf(embedCall)])

\* four texts in two sub-batches of which the first failed
C22_Witness ==
    /\ embedCall.op = "get_embeddings_batch"
    /\ Len(embedCall.texts) = 4
    /\ embedCall.batch_size = 2
    /\ embedCall.fails = {1}
    /\ embedCall.embeddings[1] = ZeroVector
    /\ embedCall.embeddings[2] = ZeroVector
    /\ ~embedCall.embeddings[3].zero
    /\ embedCall.embeddings[3] # embedCall.embeddings[4]

\* TRUE when the provider was sent an input for text i of the call
SentFor(call, i) ==
    IF call.op = "get_embedding" THEN call.provider_inputs # <<>>
    ELSE (i - (BatchOf(call, i) - 1) * SizeOf(call))
            \in DOMAIN call.provider_inputs[BatchOf(call, i)]

\* C23: in get_embedding and in get_embeddings_batch, an empty or
\* whitespace-only text yields a zero vector of the configured dimension and
\* nothing is sent to the provider on behalf of that text.
C23_BlankTextIsZeroVectorWithoutCall ==
    embedCall.op # "none" =>
        \A i \in 1..Len(embedCall.texts) :
           IsBlank(embedCall.texts[i]) =>
              /\ embedCall.embeddings[i] = ZeroVector
              /\ ~SentFor(embedCall, i)

(***************************************************************************)
(* Index dimension and persistence: properties                             *)
(***************************************************************************)
\* C24: constructing RAGService fails with a configuration error whenever the
\* embedding dimension differs from the dimension of the index it loads; the
\* mismatch never surfaces only later as an error of a search call.
C24_DimensionMismatchFailsConstruction ==
    (searchCall.called /\ faissFile.exists /\ faissFile.d # EMBEDDING_DIMENSION)
        => searchCall.init_raised /\ ~searchCall.raised

C26_LoadRefusesCorruptedPair ==
    (lastOp = "load_index" /\ faissFile.exists
       /\ (~metaFile.exists \/ Len(metaFile.data) # Len(faissFile.data)))
        => vdb.load_raised

(***************************************************************************)
(* Batch maintenance of chunks and deletions: properties                   *)
(***************************************************************************)
\* C27: after rebuild_faiss_index completes (no batch having failed),
\* whatever index file existed at the path before, the saved index contains
\* exactly one vector per chunk of each non-deleted document and nothing
\* else, the reported total_vectors equals that number of chunks, and each
\* such chunk's faiss_index_id is the ordinal (0..N-1) of its own vector.
C27_RebuildHoldsExactlyLiveChunks ==
    (lastOp = "rebuild_faiss_index" /\ faissStats.errors = 0)
    => /\ faissFile.exists
       /\ SavedCount = Cardinality(LiveChunks)
       /\ faissStats.total_vectors = Cardinality(LiveChunks)
       /\ \A c \in LiveChunks :
             /\ c.faiss_index_id \in 0..(SavedCount - 1)
             /\ SavedVector(c.faiss_index_id) = c.id
       /\ \A n \in 0..(SavedCount - 1) :
             \E c \in LiveChunks : SavedVector(n) = c.id

\* C28: when a sync changes the content of a document that already has
\* chunks, the chunk-processing pass of the same full batch run deletes the
\* document's prior chunks and creates new ones from the new content, so that
\* afterwards no chunk of the old content remains.
C28_ChangedDocumentIsRechunked ==
    (lastOp = "run_batch" /\ syncRun.full_sync) =>
        \A S \in DOMAIN syncRun.parts : \A p \in syncRun.parts[S].outcome :
           p[2] = "updated" =>
              \A d \in documents : \A c \in chunks :
                 (d.doc_id = p[1] /\ c.document_id = d.id) => c.chunk_text = d.content

\* the document row d after a pass that obtained the enumerations `current`
\* (by source type): flagged when it is of an enumerated type, not yet
\* soft-deleted and absent from the enumeration, and as before otherwise
AfterPass(d, current) ==
    IF d.doc_type \in DOMAIN current /\ ~d.deleted /\ d.doc_id \notin current[d.doc_type]
    THEN [d EXCEPT !.deleted = TRUE]
    ELSE d

\* C29: one deletion-detection pass for a source type sets deleted on exactly
\* the documents of that type that were not soft-deleted and whose doc_id is
\* absent from the upstream enumeration the pass obtained; it removes no row
\* and leaves every other document (other type, present upstream, already
\* soft-deleted) as it was.
C29_PassFlagsExactlyAbsentDocuments ==
    [][(lastOp' \in {"detect_and_mark_deleted", "detect_all_deleted"}
          /\ upstream' = upstream)
        => documents' = {AfterPass(d, deletionRun'.current) : d \in documents}]_vars

\* a pass for jira alone that flagged jira-B, with confluence-P gone upstream
\* as well and left untouched
C29_Witness ==
    /\ lastOp = "detect_and_mark_deleted"
    /\ DOMAIN deletionRun.current = {"jira"}
    /\ deletionRun.count = 1
    /\ ~upstream["confluence-P"].exists
    /\ \E d \in documents : d.doc_id = "jira-B" /\ d.deleted
    /\ \E d \in documents : d.doc_id = "jira-A" /\ ~d.deleted
    /\ \E d \in documents : d.doc_id = "confluence-P" /\ ~d.deleted

\* C30: when the analysis call raises (the client cannot be built or generate
\* raises) or returns text that is not JSON, query_analyzer leaves analyzed_query
\* with intent question, keywords the query split on whitespace, doc_type_filter
\* None and date_filter None, and the pipeline's next stage is rag_searcher
AnalysisFailed ==
    /\ lastOp = "query_analyzer"
    /\ ~IsBlank(chatState.user_query)
    /\ (lastInput.fault # "none" \/ lastInput.reply = "invalid_json")

C30_AnalysisFailureFallsBack ==
    AnalysisFailed =>
        /\ chatState.analyzed_query =
               AnalyzedQuery(chatState.user_query, "question",
                             split(chatState.user_query), "None", NoDateFilter)
        /\ pc = "rag_searcher"
        /\ ~result.returned

C30_Witness ==
    /\ AnalysisFailed
    /\ lastInput.fault = "none"
    /\ Len(split(chatState.user_query)) > 1
    /\ chatState.error = "None"
    /\ pc = "rag_searcher"

\* C31: whatever the analysis LLM replies, the analyzed_query that query_analyzer
\* produces has an intent among search, question, clarification, greeting, other
\* and a doc_type_filter among jira, confluence, None
Intents == {"search", "question", "clarification", "greeting", "other"}

C31_AnalyzedQueryIsWellFormed ==
    ~chatState.analyzed_query.is_none =>
        /\ chatState.analyzed_query.intent \in Intents
        /\ chatState.analyzed_query.doc_type_filter \in {"jira", "confluence", "None"}

\* C32: in a batch sync run with retry enabled, a configuration error (the
\* ValueError that the Jira or Confluence client raises when it is constructed
\* without credentials) is not retried: the sync function is invoked once, no
\* sleep happens and the error leaves the wrapper at once
C32_ConfigurationErrorIsNotRetried ==
    (retry.func \in DocTypes /\ retry.calls # <<>> /\ retry.calls[1] = "ValueError")
    => /\ Len(retry.calls) = 1
       /\ retry.sleeps = <<>>
       /\ retry.pc = "raised"
       /\ retry.outcome.exc = "ValueError"

\* the records a run created
NewRecords == {r \in syncHistory' : r.id \notin {q.id : q \in syncHistory}}

\* C33: every run of IncrementalSync.run_sync, and every source block that a
\* run_batch starts, is recorded by exactly one SyncHistory record, started
\* within the run; when the run has returned or raised that record has status
\* success or failed and completed_at set, and the earlier records are as they
\* were, so that no record has status running
C33_OneCompletedRecordPerRun ==
    [][lastOp' \in {"run_sync", "run_batch"} /\ syncRun'.kind # "none"
       /\ (syncHistory' # syncHistory \/ syncRun' # syncRun \/ documents' # documents)
       => /\ Cardinality(NewRecords) = Cardinality({syncRun'.parts[S].record_id :
                                                      S \in DOMAIN syncRun'.parts})
          /\ syncHistory \subseteq syncHistory'
          /\ \A r \in NewRecords :
                /\ r.started_at >= now /\ r.started_at <= now'
                /\ r.completed_at # None /\ r.completed_at >= r.started_at
          /\ \A r \in syncHistory' : r.status \in {"success", "failed"}
          /\ \A S \in DOMAIN syncRun'.parts :
                \E r \in NewRecords :
                   /\ r.id = syncRun'.parts[S].record_id
                   /\ syncRun'.parts[S].raised => r.status = "failed"]_vars

RECURSIVE Pow(_, _)
Pow(f, k) == IF k = 0 THEN 1 ELSE f * Pow(f, k - 1)

\* C34: in a call wrapped by retry_with_backoff with initial_delay d,
\* backoff_factor f and max_delay m, the sleep before the k-th retry lasts
\* min(d * f^(k-1), m); on_retry is called once before each sleep, with the
\* exception of the failed call, the number k and that delay; the number of
\* retries is at most max_retries, and after the final failed call and after a
\* call that returned there is neither a sleep nor an on_retry call
C34_BackoffDelaysAndCallbacks ==
    retry.kind = "retry_with_backoff" =>
        /\ Len(retry.sleeps) <= retry.max_retries
        /\ Len(retry.sleeps) = IF retry.pc = "loop" THEN Len(retry.calls)
                               ELSE Len(retry.calls) - 1
        /\ Len(retry.on_retry) = Len(retry.sleeps)
        /\ Len(retry.events) = 2 * Len(retry.sleeps)
        /\ \A k \in 1..Len(retry.sleeps) :
              /\ retry.sleeps[k] =
                    Min(retry.initial_delay * Pow(retry.backoff_factor, k - 1),
                        retry.max_delay)
              /\ retry.on_retry[k] = <<retry.calls[k], k, retry.sleeps[k]>>
              /\ retry.events[2 * k - 1] = "on_retry"
              /\ retry.events[2 * k] = "sleep"

C34_Witness ==
    /\ retry.kind = "retry_with_backoff"
    /\ retry.sleeps = <<2, 3>>
    /\ retry.on_retry = <<<<"ConnectionError", 1, 2>>, <<"ValueError", 2, 3>>>>
    /\ retry.pc = "raised"
    /\ retry.outcome.kind = "RetryError"

\* the calls of func made so far that returned a value, by position
ReturningCalls == {i \in 1..Len(retry.calls) : retry.calls[i] = "ok"}

\* C35: in retry_with_callback, whatever on_success does, once func has
\* returned a value on_success is called exactly once with it and func is not
\* invoked again; on_failure is called only on exhaustion, once, with the last
\* exception, and never in a run in which func returned a value
C35_CallbacksOncePerOutcome ==
    retry.kind = "retry_with_callback" =>
        /\ \A i \in ReturningCalls : i = Len(retry.calls)
        /\ Len(retry.on_success) = Cardinality(ReturningCalls)
        /\ Len(retry.on_success) <= 1
        /\ retry.on_failure # <<>>
           => /\ ReturningCalls = {}
              /\ retry.outcome.kind = "RetryError"
              /\ retry.on_failure = <<retry.outcome.last_exception>>
        /\ retry.outcome.kind = "RetryError" => Len(retry.on_failure) = 1

\* what retry_with_backoff with the default exceptions does when the calls of
\* the wrapped function end as the sequence calls says, from the call i on
RECURSIVE RunWrapped(_, _, _)
RunWrapped(r, calls, i) ==
    IF i > Len(calls) \/ r.pc # "loop" THEN r
    ELSE RunWrapped(IF calls[i] = "ok" THEN AttemptReturns(r)
                    ELSE AttemptRaises(r, calls[i]), calls, i + 1)

\* the wrapped call with the settings of the context, after the context's calls
WrappedLike(ctx) ==
    RunWrapped(StartWrapped("retry_with_backoff", ctx.max_retries, FALSE, {},
                            ctx.initial_delay, ctx.max_delay, ctx.backoff_factor),
               ctx.calls, 1)

NewlyDeleted ==
    {d \in documents' : d.deleted /\ \E q \in documents : q.doc_id = d.doc_id /\ ~q.deleted}

\* C37: the batch deletion pass detect_and_mark_deleted flags a stored document
\* only when a full enumeration of its source succeeded and does not contain
\* it; when the enumeration fails or the source is not configured, no document
\* of that source is flagged, so a document flagged by the pass is one that is
\* missing upstream
C37_FailedEnumerationDeletesNothing ==
    [][lastOp' = "detect_and_mark_deleted" /\ upstream' = upstream
       => \A d \in NewlyDeleted : ~upstream[d.doc_id].exists]_vars

\* C38: no upstream change is lost: when a run for a source has completed with
\* success, every item of the source that has not changed upstream since the
\* run's fetch is in the store with its upstream content, whether it was
\* changed before the run or while an earlier run was under way
C38_NoChangeIsLost ==
    (lastOp = "sync_complete" /\ syncRun.kind = "sync_closed" /\ ~syncRun.result.raised)
    => \A d \in IdsOfType(syncRun.sync_type) \ syncRun.changed :
          upstream[d].exists
          => \E r \in documents : r.doc_id = d /\ r.content = upstream[d].content

\* C39: a load_index that runs beside a save_index never yields a service
\* whose vectors and metadata come from two different saves: the loaded pair
\* is the pair of one saved version
C39_LoadedPairIsOneVersion ==
    vdb.load_pc = "done"
    => \E v \in vdb.versions :
          /\ vdb.loaded.vectors = v.vectors
          /\ vdb.loaded.metadata = v.metadata

\* C40: when add_vectors raises, the index is as it was before the call: the
\* same number of vectors and the same metadata list, so that the index still
\* holds one metadata record per vector if it did before
C40_FailedAddLeavesIndexUnchanged ==
    [][lastOp' = "add_vectors" /\ vdb'.raised
       => /\ ntotal(vdb'.svc) = ntotal(vdb.svc)
          /\ vdb'.svc.metadata = vdb.svc.metadata
          /\ (Len(vdb.svc.metadata) = ntotal(vdb.svc)
              => Len(vdb'.svc.metadata) = ntotal(vdb'.svc))]_vars

====
